---- MODULE Spec2Model ----
(***************************************************************************)
(* A model of the lox interpreters of this repository: the tree-walking    *)
(* interpreter (environment.rs, resolver.rs, interpreter.rs,               *)
(* lox_function.rs, parser.rs, main.rs, error.rs) and the bytecode         *)
(* compiler and stack machine (scanner.rs, compiler.rs, chunk.rs, vm.rs).  *)
(*                                                                         *)
(* Numbers are integers here (the source uses f64); strings are TLA+       *)
(* strings; an Arc<Mutex<Environment>> is an index into `heap`.            *)
(***************************************************************************)
EXTENDS Integers, Sequences, FiniteSets, TLC

VARIABLES
    program,            \* the Vec<Stmt> handed to Resolver / Interpreter::interpret
    pc,                 \* position of the driver
    next_stmt,          \* index of the next statement of Interpreter::interpret's loop
    heap,               \* the allocated Environment objects, by address
    interpreter,        \* Interpreter { globals, environment, locals }
    HAD_ERROR,          \* error.rs static
    HAD_RUNTIME_ERROR,  \* error.rs static
    stdout,             \* lines written by println!
    stderr,             \* lines written by eprintln!
    events,             \* history of what the evaluator did (for the properties)
    clock,              \* seconds since the epoch, as SystemTime::now() gives them
    parser,             \* Parser { tokens, current } of main.rs's run
    vm                  \* the bytecode pipeline: Scanner, Compiler, Chunk and VM

twVars == <<program, pc, next_stmt, heap, interpreter, HAD_ERROR,
            HAD_RUNTIME_ERROR, stdout, stderr, events, clock, parser>>
vars == <<twVars, vm>>

-----------------------------------------------------------------------------
(* object.rs: Object *)

Nil == [t |-> "Nil"]
Bool(b) == [t |-> "Bool", b |-> b]
Number(n) == [t |-> "Number", n |-> n]
String(s) == [t |-> "String", s |-> s]
NativeClock == [t |-> "Callable", kind |-> "NativeClock"]
LoxFunction(id, declaration, closure) ==
    [t |-> "Callable", kind |-> "LoxFunction", id |-> id,
     declaration |-> declaration, closure |-> closure]

\* impl Display for Object
Display(object) ==
    CASE object.t = "String" -> "\"" \o object.s \o "\""
      [] object.t = "Number" -> ToString(object.n)
      [] object.t = "Bool" -> (IF object.b THEN "true" ELSE "false")
      [] object.t = "Callable" -> "<callable>"
      [] OTHER -> "nil"

\* impl PartialEq for Object: same variant and equal payload; callables by
\* pointer, which is the id of a LoxFunction and the one NativeClock.
Object_eq(a, b) == a = b

-----------------------------------------------------------------------------
(* token.rs: Token, and the syntax tree (crate::expr, crate::stmt) *)

\* Token::new
Token_new(token_type, lexeme, literal, line) ==
    [token_type |-> token_type, lexeme |-> lexeme, line |-> line, literal |-> literal]

\* a token without a literal
Tok(token_type, lexeme, line) == Token_new(token_type, lexeme, Nil, line)

\* impl Display for Token
Token_Display(token) ==
    token.token_type \o " '" \o token.lexeme \o "' " \o Display(token.literal)

ExprNil == [k |-> "Nil"]
ExprLiteral(value) == [k |-> "Literal", value |-> value]
ExprGrouping(expression) == [k |-> "Grouping", expression |-> expression]
ExprUnary(operator, right) == [k |-> "Unary", operator |-> operator, right |-> right]
ExprBinary(left, operator, right) ==
    [k |-> "Binary", left |-> left, operator |-> operator, right |-> right]
ExprLogical(left, operator, right) ==
    [k |-> "Logical", left |-> left, operator |-> operator, right |-> right]
ExprVariable(name) == [k |-> "Variable", name |-> name]
ExprAssign(name, value) == [k |-> "Assign", name |-> name, value |-> value]
ExprCall(callee, paren, arguments) ==
    [k |-> "Call", callee |-> callee, paren |-> paren, arguments |-> arguments]

StmtNil == [k |-> "Nil"]
StmtExpression(expression) == [k |-> "Expression", expression |-> expression]
StmtPrint(expression) == [k |-> "Print", expression |-> expression]
StmtVar(name, initializer) == [k |-> "Var", name |-> name, initializer |-> initializer]
StmtBlock(statements) == [k |-> "Block", statements |-> statements]
StmtIf(condition, then_branch, else_branch) ==
    [k |-> "If", condition |-> condition, then_branch |-> then_branch,
     else_branch |-> else_branch]
StmtWhile(condition, body) == [k |-> "While", condition |-> condition, body |-> body]
StmtFunction(name, params, body) ==
    [k |-> "Function", name |-> name, params |-> params, body |-> body]
StmtReturn(keyword, value) == [k |-> "Return", keyword |-> keyword, value |-> value]

-----------------------------------------------------------------------------
(* error.rs: InterpreterError, carried in a Result *)

Ok(value) == [tag |-> "Ok", value |-> value]
RuntimeError(line, message) == [tag |-> "Runtime", line |-> line, message |-> message]
ReturnValue(value) == [tag |-> "Return", value |-> value]
\* history only: the ReturnValue with the call depth at which it was raised
Raised(r, frame) == [tag |-> r.tag, value |-> r.value, raised_in |-> frame]

\* Token::dummy(): the token of an error raised inside Environment
DummyToken == Token_new("EOF", "", Nil, 0)
DummyLine == DummyToken.line

-----------------------------------------------------------------------------
(* environment.rs: Environment { enclosing, values }.  `h` is the heap, `e`  *)
(* the address of the environment the method is called on; enclosing = 0    *)
(* is None.                                                                 *)

NoEnv == 0

EmptyValues == [n \in {} |-> Nil]

\* Environment::default (enclosing None) and Environment::new(enclosing)
Environment_new(enclosing) == [enclosing |-> enclosing, values |-> EmptyValues]

\* Arc::new(Mutex::new(env)): the heap with one more environment
Alloc(h, env) == Append(h, env)

\* HashMap::insert
Insert(values, name, value) ==
    [n \in DOMAIN values \cup {name} |-> IF n = name THEN value ELSE values[n]]

define(h, e, name, value) ==
    [h EXCEPT ![e].values = Insert(@, name, value)]

RECURSIVE ancestor_loop(_, _, _)
ancestor_loop(h, environment, remaining) ==
    IF remaining = 0 THEN Ok(environment)
    ELSE IF h[environment].enclosing = NoEnv
         THEN RuntimeError(DummyLine, "No enclosing environment at requested distance.")
         ELSE ancestor_loop(h, h[environment].enclosing, remaining - 1)

ancestor(h, e, distance) ==
    IF h[e].enclosing = NoEnv
    THEN RuntimeError(DummyLine, "No enclosing environment.")
    ELSE ancestor_loop(h, h[e].enclosing, distance)

get_at(h, e, distance, name) ==
    LET env_arc == ancestor(h, e, distance) IN
    IF env_arc.tag # "Ok" THEN env_arc
    ELSE IF name \in DOMAIN h[env_arc.value].values
         THEN Ok(h[env_arc.value].values[name])
         ELSE RuntimeError(DummyLine, "Undefined variable '" \o name \o "'.")

\* Result: [tag, heap] (the heap after the assignment) or a RuntimeError
RECURSIVE assign(_, _, _, _)
assign(h, e, name, value) ==
    IF name.lexeme \in DOMAIN h[e].values
    THEN [tag |-> "Ok", heap |-> define(h, e, name.lexeme, value)]
    ELSE IF h[e].enclosing # NoEnv
         THEN assign(h, h[e].enclosing, name, value)
         ELSE RuntimeError(name.line, "Undefined variable '" \o name.lexeme \o "'.")

assign_at(h, e, distance, name, value) ==
    LET env_arc == ancestor(h, e, distance) IN
    IF env_arc.tag # "Ok" THEN env_arc
    ELSE [tag |-> "Ok", heap |-> define(h, env_arc.value, name.lexeme, value)]

RECURSIVE get(_, _, _)
get(h, e, name) ==
    IF name.lexeme \in DOMAIN h[e].values
    THEN Ok(h[e].values[name.lexeme])
    ELSE IF h[e].enclosing # NoEnv
         THEN get(h, h[e].enclosing, name)
         ELSE RuntimeError(name.line, "Undefined variable '" \o name.lexeme \o "'.")

-----------------------------------------------------------------------------
(* interpreter.rs: the evaluator.  The operators below take and return the  *)
(* interpreter's run-time state `s`:                                        *)
(*   heap, globals, environment, locals  the Interpreter and its objects    *)
(*   stdout                              what println! wrote                *)
(*   now                                 the wall clock NativeClock reads   *)
(*   nfun                                LoxFunction objects created so far *)
(*   events, depth, frame                history: what was evaluated, at    *)
(*                                       which nesting of evaluate() and    *)
(*                                       under how many active calls        *)
(* A Result<T, InterpreterError> is Ok / RuntimeError / ReturnValue; the    *)
(* ReturnValue also remembers the frame that raised it (history only).      *)
(* Then(v, F) is `let x = v; F(x)`: v is computed once.                     *)

Then(v, F(_)) == CHOOSE out \in {F(x) : x \in {v}} : TRUE

Res(s, r) == [s |-> s, r |-> r]
Log(s, e) == [s EXCEPT !.events = Append(@, e)]
Unit == Nil

\* `let x = v?; F(x)`: an Err of v is returned as it is
Try(v, F(_)) == Then(v, LAMBDA x : IF x.r.tag # "Ok" THEN x ELSE F(x))

is_truthy(object) ==
    CASE object.t = "Nil" -> FALSE
      [] object.t = "Bool" -> object.b
      [] OTHER -> TRUE

is_equal(a, b) ==
    IF a.t = "Nil" /\ b.t = "Nil" THEN TRUE
    ELSE IF a.t = "Nil" THEN FALSE
    ELSE Object_eq(a, b)

stringify(object) ==
    IF object.t = "Nil" THEN "nil" ELSE Display(object)

check_number_operand(operator, operand) ==
    IF operand.t = "Number" THEN Ok(Unit)
    ELSE RuntimeError(operator.line, "Operand must be a number.")

check_number_operands(operator, operand1, operand2) ==
    IF check_number_operand(operator, operand1).tag # "Ok"
    THEN check_number_operand(operator, operand1)
    ELSE check_number_operand(operator, operand2)

look_up_variable(s, name, expr) ==
    IF expr \in DOMAIN s.locals
    THEN get_at(s.heap, s.environment, s.locals[expr], name.lexeme)
    ELSE get(s.heap, s.globals, name)

\* Callable::arity
arity(callable) ==
    IF callable.kind = "LoxFunction" THEN Len(callable.declaration.params) ELSE 0

RECURSIVE evaluate(_, _)
RECURSIVE execute(_, _)
RECURSIVE execute_block(_, _, _)
RECURSIVE execute_block_loop(_, _, _, _)
RECURSIVE execute_block_loop_leaks(_, _, _, _)
RECURSIVE evaluate_arguments(_, _, _, _)
RECURSIVE visit_while_stmt(_, _)
RECURSIVE LoxFunction_call(_, _, _)

visit_literal_expr(expr, s) == Res(s, Ok(expr.value))

visit_grouping_expr(expr, s) == evaluate(expr.expression, s)

\* the match of visit_unary_expr on the operator
Unary(token_type, right) ==
    CASE token_type = "Bang" -> Bool(~is_truthy(right))
      [] token_type = "Minus" ->
           (IF right.t = "Number" THEN Number(0 - right.n) ELSE Nil)
      [] OTHER -> Nil

visit_unary_expr(expr, s) ==
    Try(evaluate(expr.right, s), LAMBDA right :
        Res(right.s, Ok(Unary(expr.operator.token_type, right.r.value))))

\* the arms of visit_binary_expr that need two numbers
Arith(token_type, l, r) ==
    CASE token_type = "Minus" -> Number(l - r)
      [] token_type = "Slash" -> Number(IF r = 0 THEN 0 ELSE l \div r)
      [] token_type = "Star" -> Number(l * r)
      [] token_type = "Greater" -> Bool(l > r)
      [] token_type = "GreaterEqual" -> Bool(l >= r)
      [] token_type = "Less" -> Bool(l < r)
      [] OTHER -> Bool(l <= r)

\* the match of visit_binary_expr on the operator
Binary(operator, l, r) ==
    CASE operator.token_type = "Plus" ->
           (IF l.t = "Number" /\ r.t = "Number" THEN Ok(Number(l.n + r.n))
            ELSE IF l.t = "String" /\ r.t = "String" THEN Ok(String(l.s \o r.s))
            ELSE RuntimeError(operator.line,
                              "Operands must be two numbers or two strings."))
      [] operator.token_type \in {"Minus", "Slash", "Star", "Greater",
                                  "GreaterEqual", "Less", "LessEqual"} ->
           (IF check_number_operands(operator, l, r).tag # "Ok"
            THEN check_number_operands(operator, l, r)
            ELSE Ok(Arith(operator.token_type, l.n, r.n)))
      [] operator.token_type = "BangEqual" -> Ok(Bool(~is_equal(l, r)))
      [] operator.token_type = "EqualEqual" -> Ok(Bool(is_equal(l, r)))
      [] OTHER -> Ok(Nil)

visit_binary_expr(expr, s) ==
    Try(evaluate(expr.left, s), LAMBDA left :
    Try(evaluate(expr.right, left.s), LAMBDA right :
        Res(right.s, Binary(expr.operator, left.r.value, right.r.value))))

\* the distance that locals holds for the expression, if any
Distance(s, expr) == IF expr \in DOMAIN s.locals THEN <<s.locals[expr]>> ELSE <<>>

\* the history's entry of a read or an assignment of a variable: where it
\* was made and what it gave
Access(ev, s, expr, result) ==
    [ev |-> ev, expr |-> expr, environment |-> s.environment, heap |-> s.heap,
     distance |-> Distance(s, expr), result |-> result]

visit_variable_expr(expr, s) ==
    Then(look_up_variable(s, expr.name, expr), LAMBDA value :
        Res(Log(s, Access("look_up_variable", s, expr, value)), value))

\* the assignment of visit_assign_expr, once the value is there
Assigned(expr, value, s) ==
    IF expr \in DOMAIN s.locals
    THEN assign_at(s.heap, s.environment, s.locals[expr], expr.name, value)
    ELSE assign(s.heap, s.globals, expr.name, value)

visit_assign_expr(expr, s) ==
    Try(evaluate(expr.value, s), LAMBDA value :
    Then(Assigned(expr, value.r.value, value.s), LAMBDA done :
    Then(Log(value.s, Access("assign", value.s, expr,
                             IF done.tag # "Ok" THEN done ELSE Ok(value.r.value))),
         LAMBDA logged :
             IF done.tag # "Ok" THEN Res(logged, done)
             ELSE Res([logged EXCEPT !.heap = done.heap], Ok(value.r.value)))))

\* faulty variant of ShortCircuits: the right operand is always evaluated
ShortCircuits_never(token_type, left) == FALSE

\* whether visit_logical_expr returns the left operand without evaluating
\* the right one
ShortCircuits(token_type, left) ==
    IF token_type = "Or" THEN is_truthy(left) ELSE ~is_truthy(left)

visit_logical_expr(expr, s) ==
    Try(evaluate(expr.left, s), LAMBDA left :
        IF ShortCircuits(expr.operator.token_type, left.r.value)
        THEN left
        ELSE evaluate(expr.right, left.s))

\* the loop of visit_call_expr over expr.arguments, from index i on
evaluate_arguments(arguments, i, evaluated_arguments, s) ==
    IF i > Len(arguments) THEN Res(s, Ok(evaluated_arguments))
    ELSE Try(evaluate(arguments[i], s), LAMBDA a :
             evaluate_arguments(arguments, i + 1,
                                Append(evaluated_arguments, a.r.value), a.s))

\* impl Callable for NativeClock
NativeClock_call(arguments, s) == Res(s, Ok(Number(s.now)))

\* dyn Callable dispatch
Callable_call(callable, arguments, s) ==
    IF callable.kind = "LoxFunction"
    THEN LoxFunction_call(callable, arguments, s)
    ELSE NativeClock_call(arguments, s)

\* faulty variant of ArityChecked: no check
ArityChecked_none(expr, callable) == Ok(Unit)

\* the arity check of visit_call_expr
ArityChecked(expr, callable) ==
    IF Len(expr.arguments) # arity(callable)
    THEN RuntimeError(expr.paren.line,
                      "Expected " \o ToString(arity(callable)) \o " arguments but got "
                      \o ToString(Len(expr.arguments)) \o ".")
    ELSE Ok(Unit)

\* the match of visit_call_expr on the callee
Called(expr, callee, arguments, s) ==
    IF callee.t = "Callable"
    THEN Then(ArityChecked(expr, callee), LAMBDA check :
         Then(Log(s, [ev |-> "arity", frame |-> s.frame, callable |-> callee,
                      got |-> Len(expr.arguments), result |-> check]),
              LAMBDA s1 :
                  IF check.tag # "Ok" THEN Res(s1, check)
                  ELSE Callable_call(callee, arguments, s1)))
    ELSE Res(s, RuntimeError(expr.paren.line, "Can only call functions and classes."))

visit_call_expr(expr, s) ==
    Try(evaluate(expr.callee, s), LAMBDA callee :
    Try(evaluate_arguments(expr.arguments, 1, <<>>, callee.s), LAMBDA args :
        Called(expr, callee.r.value, args.r.value, args.s)))

\* expr.accept(self)
Expr_accept(expr, s) ==
    CASE expr.k = "Literal" -> visit_literal_expr(expr, s)
      [] expr.k = "Grouping" -> visit_grouping_expr(expr, s)
      [] expr.k = "Unary" -> visit_unary_expr(expr, s)
      [] expr.k = "Binary" -> visit_binary_expr(expr, s)
      [] expr.k = "Variable" -> visit_variable_expr(expr, s)
      [] expr.k = "Assign" -> visit_assign_expr(expr, s)
      [] expr.k = "Logical" -> visit_logical_expr(expr, s)
      [] expr.k = "Call" -> visit_call_expr(expr, s)

evaluate(expr, s) ==
    Then(Expr_accept(expr, Log([s EXCEPT !.depth = @ + 1],
                               [ev |-> "evaluate", depth |-> s.depth + 1,
                                expr |-> expr])),
         LAMBDA out :
             Res(Log([out.s EXCEPT !.depth = s.depth],
                     [ev |-> "evaluated", depth |-> s.depth + 1, expr |-> expr,
                      result |-> out.r]),
                 out.r))

visit_expression_stmt(stmt, s) ==
    Try(evaluate(stmt.expression, s), LAMBDA value : Res(value.s, Ok(Unit)))

visit_print_stmt(stmt, s) ==
    Try(evaluate(stmt.expression, s), LAMBDA value :
        Res([value.s EXCEPT !.stdout = Append(@, stringify(value.r.value))],
            Ok(Unit)))

visit_var_stmt(stmt, s) ==
    Try(IF stmt.initializer.k = "Nil" THEN Res(s, Ok(Nil))
        ELSE evaluate(stmt.initializer, s),
        LAMBDA value :
            Res([value.s EXCEPT !.heap =
                    define(@, value.s.environment, stmt.name.lexeme, value.r.value)],
                Ok(Unit)))

visit_block_stmt(stmt, s) ==
    execute_block(stmt.statements, Len(s.heap) + 1,
                  [s EXCEPT !.heap = Alloc(@, Environment_new(s.environment))])

visit_if_stmt(stmt, s) ==
    Try(evaluate(stmt.condition, s), LAMBDA condition :
        IF is_truthy(condition.r.value) THEN execute(stmt.then_branch, condition.s)
        ELSE IF stmt.else_branch.k # "Nil"
             THEN execute(stmt.else_branch, condition.s)
             ELSE Res(condition.s, Ok(Unit)))

visit_while_stmt(stmt, s) ==
    Try(evaluate(stmt.condition, s), LAMBDA condition :
        IF ~is_truthy(condition.r.value) THEN Res(condition.s, Ok(Unit))
        ELSE Try(execute(stmt.body, condition.s), LAMBDA body :
                 visit_while_stmt(stmt, body.s)))

\* LoxFunction::new(StmtFunction { .. }, Arc::clone(&self.environment))
NewFunction(stmt, s) ==
    LoxFunction(s.nfun + 1, StmtFunction(stmt.name, stmt.params, stmt.body),
                s.environment)

visit_function_stmt(stmt, s) ==
    Res(Log([s EXCEPT !.nfun = @ + 1,
                      !.heap = define(@, s.environment, stmt.name.lexeme,
                                      NewFunction(stmt, s))],
            [ev |-> "declare", id |-> s.nfun + 1, environment |-> s.environment]),
        Ok(Unit))

visit_return_stmt(stmt, s) ==
    Try(IF stmt.value.k # "Nil" THEN evaluate(stmt.value, s) ELSE Res(s, Ok(Nil)),
        LAMBDA value :
            Res(Log(value.s, [ev |-> "return", frame |-> s.frame,
                              value |-> value.r.value]),
                Raised(ReturnValue(value.r.value), s.frame)))

\* statement.accept(self)
Stmt_accept(statement, s) ==
    CASE statement.k = "Expression" -> visit_expression_stmt(statement, s)
      [] statement.k = "Print" -> visit_print_stmt(statement, s)
      [] statement.k = "Var" -> visit_var_stmt(statement, s)
      [] statement.k = "Block" -> visit_block_stmt(statement, s)
      [] statement.k = "If" -> visit_if_stmt(statement, s)
      [] statement.k = "While" -> visit_while_stmt(statement, s)
      [] statement.k = "Function" -> visit_function_stmt(statement, s)
      [] statement.k = "Return" -> visit_return_stmt(statement, s)

execute(statement, s) ==
    Then(Stmt_accept(statement, s), LAMBDA out :
        Res(Log(out.s, [ev |-> "executed", frame |-> s.frame, k |-> statement.k,
                        result |-> out.r]),
            out.r))

\* a variant of the loop that returns the error of a statement at once,
\* with the block's environment still current
execute_block_loop_leaks(statements, i, previous_environment, s) ==
    IF i > Len(statements)
    THEN Res([s EXCEPT !.environment = previous_environment], Ok(Unit))
    ELSE Then(execute(statements[i], s), LAMBDA r :
             IF r.r.tag # "Ok"
             THEN Res(r.s, r.r)
             ELSE execute_block_loop_leaks(statements, i + 1, previous_environment,
                                           r.s))

\* the for loop of execute_block, from statement i on
execute_block_loop(statements, i, previous_environment, s) ==
    IF i > Len(statements)
    THEN Res([s EXCEPT !.environment = previous_environment], Ok(Unit))
    ELSE Then(execute(statements[i], s), LAMBDA r :
             IF r.r.tag # "Ok"
             THEN Res([r.s EXCEPT !.environment = previous_environment], r.r)
             ELSE execute_block_loop(statements, i + 1, previous_environment, r.s))

execute_block(statements, environment, s) ==
    Then(execute_block_loop(statements, 1, s.environment,
                            [s EXCEPT !.environment = environment]),
         LAMBDA out :
             Res(Log(out.s, [ev |-> "execute_block", previous |-> s.environment,
                             environment |-> environment,
                             restored |-> out.s.environment, result |-> out.r]),
                 out.r))

-----------------------------------------------------------------------------
(* lox_function.rs: impl Callable for LoxFunction *)

\* arguments.get(i).cloned().unwrap_or(Object::Nil)
ArgumentOrNil(arguments, i) == IF i <= Len(arguments) THEN arguments[i] ELSE Nil

\* the values of the call's environment once the loop over params has run
\* (a later parameter of the same name overwrites an earlier one)
BoundParams(params, arguments) ==
    [n \in {params[i].lexeme : i \in DOMAIN params} |->
        ArgumentOrNil(arguments,
                      CHOOSE i \in DOMAIN params :
                          /\ params[i].lexeme = n
                          /\ \A j \in DOMAIN params : params[j].lexeme = n => j <= i)]

\* Environment::new(Arc::clone(&self.closure)), with the parameters defined
CallEnvironment(function, arguments) ==
    [enclosing |-> function.closure,
     values |-> BoundParams(function.declaration.params, arguments)]

\* faulty variants of CallResult: one loses the returned value, one lets
\* the Return through to the caller
CallResult_losesValue(r) ==
    IF r.tag = "Runtime" THEN r ELSE Ok(Nil)

CallResult_passesReturn(r) ==
    IF r.tag = "Ok" THEN Ok(Nil) ELSE r

\* what the match on execute_block's result makes of it
CallResult(r) ==
    CASE r.tag = "Ok" -> Ok(Nil)
      [] r.tag = "Return" -> Ok(r.value)
      [] OTHER -> r

LoxFunction_call(function, arguments, s) ==
    Then(Len(s.heap) + 1, LAMBDA env_arc :
    Then(Alloc(s.heap, CallEnvironment(function, arguments)), LAMBDA h :
    Then(execute_block(function.declaration.body, env_arc,
             Log([s EXCEPT !.heap = h, !.frame = @ + 1],
                 [ev |-> "call", id |-> function.id, frame |-> s.frame + 1,
                  params |-> function.declaration.params,
                  closure |-> function.closure, arguments |-> arguments,
                  env |-> env_arc, parent |-> h[env_arc].enclosing,
                  bound |-> h[env_arc].values, caller |-> s.environment])),
         LAMBDA body :
             Res(Log([body.s EXCEPT !.frame = s.frame],
                     [ev |-> "callret", id |-> function.id, frame |-> s.frame + 1,
                      body |-> body.r, result |-> CallResult(body.r)]),
                 CallResult(body.r)))))

-----------------------------------------------------------------------------
(* resolver.rs: Resolver { interpreter, scopes, current_function }.  `rs`   *)
(* is the resolver's state; rs.locals is interpreter.locals, which          *)
(* Interpreter::resolve fills.                                              *)

\* Interpreter::resolve
resolve(locals, expr, depth) ==
    [e \in DOMAIN locals \cup {expr} |-> IF e = expr THEN depth ELSE locals[e]]

begin_scope(rs) == [rs EXCEPT !.scopes = Append(@, [n \in {} |-> FALSE])]

end_scope(rs) == [rs EXCEPT !.scopes = SubSeq(@, 1, Len(@) - 1)]

declare(rs, name) ==
    IF rs.scopes = <<>> THEN Res(rs, Ok(Unit))
    ELSE IF name.lexeme \in DOMAIN rs.scopes[Len(rs.scopes)]
         THEN Res(rs, RuntimeError(name.line,
                        "Already a variable with this name in this scope."))
         ELSE Res([rs EXCEPT !.scopes[Len(rs.scopes)] = Insert(@, name.lexeme, FALSE)],
                  Ok(Unit))

Resolver_define(rs, name) ==
    IF rs.scopes = <<>> THEN Res(rs, Ok(Unit))
    ELSE Res([rs EXCEPT !.scopes[Len(rs.scopes)] = Insert(@, name.lexeme, TRUE)],
             Ok(Unit))

\* a variant of the loop that counts the distance from the outermost scope
RECURSIVE resolve_local_loop_outermost(_, _, _, _)
resolve_local_loop_outermost(rs, expr, name, i) ==
    IF i < 1 THEN rs
    ELSE IF name.lexeme \in DOMAIN rs.scopes[i]
         THEN [rs EXCEPT !.locals = resolve(@, expr, i - 1),
                         !.resolved = Append(@, [ev |-> "resolve", expr |-> expr,
                                                 depth |-> i - 1])]
         ELSE resolve_local_loop_outermost(rs, expr, name, i - 1)

\* the loop of resolve_local, at scope index i (counted from 1)
RECURSIVE resolve_local_loop(_, _, _, _)
resolve_local_loop(rs, expr, name, i) ==
    IF i < 1 THEN rs
    ELSE IF name.lexeme \in DOMAIN rs.scopes[i]
         THEN [rs EXCEPT !.locals = resolve(@, expr, Len(rs.scopes) - i),
                         !.resolved = Append(@, [ev |-> "resolve", expr |-> expr,
                                                 depth |-> Len(rs.scopes) - i])]
         ELSE resolve_local_loop(rs, expr, name, i - 1)

resolve_local(rs, expr, name) ==
    Res(resolve_local_loop(rs, expr, name, Len(rs.scopes)), Ok(Unit))

RECURSIVE resolve_expression(_, _)
RECURSIVE resolve_statement(_, _)
RECURSIVE resolve_statements_loop(_, _, _)
RECURSIVE resolve_arguments(_, _, _)
RECURSIVE resolve_params(_, _, _)

Resolver_visit_assign_expr(expr, rs) ==
    Try(resolve_expression(expr.value, rs), LAMBDA value :
        resolve_local(value.s, expr, expr.name))

\* visit_binary_expr and visit_logical_expr
Resolver_visit_binary_expr(expr, rs) ==
    Try(resolve_expression(expr.left, rs), LAMBDA left :
        resolve_expression(expr.right, left.s))

resolve_arguments(arguments, i, rs) ==
    IF i > Len(arguments) THEN Res(rs, Ok(Unit))
    ELSE Try(resolve_expression(arguments[i], rs), LAMBDA a :
             resolve_arguments(arguments, i + 1, a.s))

Resolver_visit_call_expr(expr, rs) ==
    Try(resolve_expression(expr.callee, rs), LAMBDA callee :
        resolve_arguments(expr.arguments, 1, callee.s))

Resolver_visit_variable_expr(expr, rs) ==
    IF /\ rs.scopes # <<>>
       /\ expr.name.lexeme \in DOMAIN rs.scopes[Len(rs.scopes)]
       /\ rs.scopes[Len(rs.scopes)][expr.name.lexeme] = FALSE
    THEN Res(rs, RuntimeError(expr.name.line,
                   "Can't read local variable in its own initializer."))
    ELSE resolve_local(rs, expr, expr.name)

resolve_expression(expression, rs) ==
    CASE expression.k = "Assign" -> Resolver_visit_assign_expr(expression, rs)
      [] expression.k \in {"Binary", "Logical"} ->
             Resolver_visit_binary_expr(expression, rs)
      [] expression.k = "Call" -> Resolver_visit_call_expr(expression, rs)
      [] expression.k = "Grouping" -> resolve_expression(expression.expression, rs)
      [] expression.k = "Literal" -> Res(rs, Ok(Unit))
      [] expression.k = "Variable" -> Resolver_visit_variable_expr(expression, rs)
      [] expression.k = "Unary" -> resolve_expression(expression.right, rs)

resolve_statements_loop(statements, i, rs) ==
    IF i > Len(statements) THEN Res(rs, Ok(Unit))
    ELSE Try(resolve_statement(statements[i], rs), LAMBDA r :
             resolve_statements_loop(statements, i + 1, r.s))

resolve_statements(statements, rs) == resolve_statements_loop(statements, 1, rs)

\* the loop of resolve_function over stmt.params
resolve_params(params, i, rs) ==
    IF i > Len(params) THEN Res(rs, Ok(Unit))
    ELSE Try(declare(rs, params[i]), LAMBDA d :
             resolve_params(params, i + 1, Resolver_define(d.s, params[i]).s))

resolve_function(stmt, function_type, rs) ==
    Try(resolve_params(stmt.params, 1,
                       begin_scope([rs EXCEPT !.current_function = function_type])),
        LAMBDA params :
    Try(resolve_statements(stmt.body, params.s), LAMBDA body :
        Res([end_scope(body.s) EXCEPT !.current_function = rs.current_function],
            Ok(Unit))))

Resolver_visit_block_stmt(stmt, rs) ==
    Try(resolve_statements(stmt.statements, begin_scope(rs)), LAMBDA body :
        Res(end_scope(body.s), Ok(Unit)))

Resolver_visit_function_stmt(stmt, rs) ==
    Try(declare(rs, stmt.name), LAMBDA d :
        resolve_function(stmt, "Function", Resolver_define(d.s, stmt.name).s))

Resolver_visit_if_stmt(stmt, rs) ==
    Try(resolve_expression(stmt.condition, rs), LAMBDA condition :
    Try(resolve_statement(stmt.then_branch, condition.s), LAMBDA then_branch :
        IF stmt.else_branch.k # "Nil"
        THEN resolve_statement(stmt.else_branch, then_branch.s)
        ELSE then_branch))

Resolver_visit_return_stmt(stmt, rs) ==
    IF rs.current_function = "None"
    THEN Res(rs, RuntimeError(stmt.keyword.line, "Can't return from top-level code."))
    ELSE IF stmt.value.k # "Nil" THEN resolve_expression(stmt.value, rs)
    ELSE Res(rs, Ok(Unit))

Resolver_visit_var_stmt(stmt, rs) ==
    Try(declare(rs, stmt.name), LAMBDA d :
    Try(IF stmt.initializer.k # "Nil" THEN resolve_expression(stmt.initializer, d.s)
        ELSE Res(d.s, Ok(Unit)),
        LAMBDA initializer : Resolver_define(initializer.s, stmt.name)))

Resolver_visit_while_stmt(stmt, rs) ==
    Try(resolve_expression(stmt.condition, rs), LAMBDA condition :
        resolve_statement(stmt.body, condition.s))

resolve_statement(statement, rs) ==
    CASE statement.k = "Block" -> Resolver_visit_block_stmt(statement, rs)
      [] statement.k \in {"Expression", "Print"} ->
             resolve_expression(statement.expression, rs)
      [] statement.k = "Function" -> Resolver_visit_function_stmt(statement, rs)
      [] statement.k = "If" -> Resolver_visit_if_stmt(statement, rs)
      [] statement.k = "Return" -> Resolver_visit_return_stmt(statement, rs)
      [] statement.k = "Var" -> Resolver_visit_var_stmt(statement, rs)
      [] statement.k = "While" -> Resolver_visit_while_stmt(statement, rs)

\* Resolver::new(interpreter), with the history `resolved` of the calls of
\* Interpreter::resolve
Resolver_new(locals) ==
    [scopes |-> <<>>, current_function |-> "None", locals |-> locals,
     resolved |-> <<>>]

-----------------------------------------------------------------------------
(* error.rs: the reporters *)

\* impl Debug for Object, as {:#?} prints it two levels deep
DebugObject(object) ==
    CASE object.t = "String" -> "String(\n        \"" \o object.s \o "\",\n    )"
      [] object.t = "Number" ->
           "Number(\n        OrderedFloat(\n            " \o ToString(object.n)
           \o ".0,\n        ),\n    )"
      [] object.t = "Bool" ->
           "Bool(\n        " \o (IF object.b THEN "true" ELSE "false") \o ",\n    )"
      [] object.t = "Callable" -> "Callable(\n        0x" \o ToString(object) \o ",\n    )"
      [] OTHER -> "Nil"

\* eprintln! of runtime_error, by the variant of the InterpreterError
RuntimeErrorLine(error) ==
    IF error.tag = "Runtime"
    THEN error.message \o "\n[line " \o ToString(error.line) \o "]"
    ELSE "ERROR: returned ReturnValue {\n    value: " \o DebugObject(error.value)
         \o ",\n}"

\* eprintln! of report(line, "", message)
ReportLine(line, message) ==
    "[line " \o ToString(line) \o "] Error: " \o message

-----------------------------------------------------------------------------
(* parser.rs: Parser { tokens, current }.  `p` is the parser together with  *)
(* what it has printed (stdout) and the history (events); current counts    *)
(* from 0 as in the source, so tokens[current + 1] is the token at current. *)

ParseError(line, message) == [tag |-> "ParseError", line |-> line, message |-> message]

Parser_new(tokens) == [tokens |-> tokens, current |-> 0]

Parser_peek(p) == p.tokens[p.current + 1]

Parser_previous(p) == p.tokens[p.current]

Parser_is_at_end(p) == Parser_peek(p).token_type = "EOF"

Parser_check(p, token_type) ==
    IF Parser_is_at_end(p) THEN FALSE ELSE Parser_peek(p).token_type = token_type

\* the parser after advance(); the token it returns is Parser_previous of it
Parser_advance(p) ==
    IF ~Parser_is_at_end(p) THEN [p EXCEPT !.current = @ + 1] ELSE p

\* match_token: whether one of the types matched, and the parser after it
Parser_match_token(p, types) ==
    IF \E token_type \in types : Parser_check(p, token_type)
    THEN [matched |-> TRUE, p |-> Parser_advance(p)]
    ELSE [matched |-> FALSE, p |-> p]

Parser_error(token, message) ==
    IF token.token_type = "EOF"
    THEN ParseError(token.line, "at end: " \o message)
    ELSE ParseError(token.line, "at '" \o token.lexeme \o "' " \o message)

Parser_consume(p, token_type, message) ==
    IF Parser_check(p, token_type)
    THEN Res(Parser_advance(p), Ok(Parser_previous(Parser_advance(p))))
    ELSE Res(p, Parser_error(Parser_peek(p), message))

\* the token types at which synchronize stops
RecoverAt == {"Class", "Fun", "Var", "For", "If", "While", "Print", "Return"}

\* the while loop of synchronize
RECURSIVE Parser_synchronize_loop(_)
Parser_synchronize_loop(p) ==
    IF Parser_is_at_end(p) THEN p
    ELSE IF Parser_previous(p).token_type = "SemiColon" THEN p
    ELSE Then([p EXCEPT !.stdout =
                  Append(@, "\tattempting to recover from: "
                            \o Parser_peek(p).token_type)],
              LAMBDA printed :
                  IF Parser_peek(p).token_type \in RecoverAt THEN printed
                  ELSE Parser_synchronize_loop(Parser_advance(printed)))

\* a variant of synchronize without the advance() before its loop; at the
\* first token, where previous() has no token to return, it returns at once
Parser_synchronize_stays(p) ==
    IF p.current = 0 THEN p ELSE Parser_synchronize_loop(p)

Parser_synchronize(p) ==
    Parser_synchronize_loop(Parser_advance(
        [p EXCEPT !.stdout =
            Append(@, "entering recovery for: " \o Token_Display(Parser_peek(p)))]))

RECURSIVE Parser_expression(_)
RECURSIVE Parser_assignment(_)
RECURSIVE Parser_unary(_)
RECURSIVE Parser_operand(_, _)
RECURSIVE Parser_operators_loop(_, _, _)
RECURSIVE Parser_statement(_)
RECURSIVE Parser_declaration(_)
RECURSIVE Parser_block_loop(_, _)

Parser_primary(p) ==
    IF Parser_match_token(p, {"False"}).matched
    THEN Res(Parser_advance(p), Ok(ExprLiteral(Bool(FALSE))))
    ELSE IF Parser_match_token(p, {"True"}).matched
    THEN Res(Parser_advance(p), Ok(ExprLiteral(Bool(TRUE))))
    ELSE IF Parser_match_token(p, {"Nil"}).matched
    THEN Res(Parser_advance(p), Ok(ExprLiteral(Nil)))
    ELSE IF Parser_match_token(p, {"Number", "String"}).matched
    THEN Res(Parser_advance(p), Ok(ExprLiteral(Parser_peek(p).literal)))
    ELSE IF Parser_match_token(p, {"Identifier"}).matched
    THEN Res(Parser_advance(p), Ok(ExprVariable(Parser_peek(p))))
    ELSE IF Parser_match_token(p, {"LeftParen"}).matched
    THEN Try(Parser_expression(Parser_advance(p)), LAMBDA expression :
         Try(Parser_consume(expression.s, "RightParen", "Expect ')' after expression."),
             LAMBDA paren : Res(paren.s, Ok(ExprGrouping(expression.r.value)))))
    ELSE Res(p, Parser_error(Parser_peek(p), "Expect expression."))

Parser_unary(p) ==
    IF Parser_match_token(p, {"Bang", "Minus"}).matched
    THEN Try(Parser_unary(Parser_advance(p)), LAMBDA right :
             Res(right.s, Ok(ExprUnary(Parser_peek(p), right.r.value))))
    ELSE Parser_primary(p)

\* the operators that the loop of the function `level` matches
Parser_operators(level) ==
    CASE level = "factor" -> {"Slash", "Star"}
      [] level = "term" -> {"Minus", "Plus"}
      [] level = "comparison" -> {"Greater", "GreaterEqual", "Less", "LessEqual"}
      [] level = "equality" -> {"BangEqual", "EqualEqual"}
      [] level = "and" -> {"And"}
      [] level = "or" -> {"Or"}

\* the function that parses an operand of the function `level`
Parser_operand(level, p) ==
    CASE level = "factor" -> Parser_unary(p)
      [] level = "term" ->
           Try(Parser_unary(p), LAMBDA e :
               Parser_operators_loop("factor", e.s, e.r.value))
      [] level = "comparison" ->
           Try(Parser_operand("term", p), LAMBDA e :
               Parser_operators_loop("term", e.s, e.r.value))
      [] level = "equality" ->
           Try(Parser_operand("comparison", p), LAMBDA e :
               Parser_operators_loop("comparison", e.s, e.r.value))
      [] level = "and" ->
           Try(Parser_operand("equality", p), LAMBDA e :
               Parser_operators_loop("equality", e.s, e.r.value))
      [] level = "or" ->
           Try(Parser_operand("and", p), LAMBDA e :
               Parser_operators_loop("and", e.s, e.r.value))

\* the node that the loop of the function `level` builds
Parser_node(level, left, operator, right) ==
    IF level \in {"and", "or"} THEN ExprLogical(left, operator, right)
    ELSE ExprBinary(left, operator, right)

\* the while loop of factor, term, comparison, equality, and, or
Parser_operators_loop(level, p, expr) ==
    IF ~Parser_match_token(p, Parser_operators(level)).matched THEN Res(p, Ok(expr))
    ELSE Try(Parser_operand(level, Parser_advance(p)), LAMBDA right :
             Parser_operators_loop(level, right.s,
                 Parser_node(level, expr, Parser_peek(p), right.r.value)))

Parser_factor(p) == Parser_operand("term", p)
Parser_term(p) == Parser_operand("comparison", p)
Parser_comparison(p) == Parser_operand("equality", p)
Parser_equality(p) == Parser_operand("and", p)
Parser_and(p) == Parser_operand("or", p)

Parser_or(p) ==
    Try(Parser_and(p), LAMBDA e : Parser_operators_loop("or", e.s, e.r.value))

Parser_assignment(p) ==
    Try(Parser_or(p), LAMBDA expr :
        IF ~Parser_match_token(expr.s, {"Equal"}).matched THEN expr
        ELSE Try(Parser_assignment(Parser_advance(expr.s)), LAMBDA value :
                 IF expr.r.value.k = "Variable"
                 THEN Res(value.s, Ok(ExprAssign(expr.r.value.name, value.r.value)))
                 ELSE Res(value.s, Parser_error(Parser_peek(expr.s),
                                                "Invalid assignment target."))))

Parser_expression(p) == Parser_assignment(p)

Parser_var_declaration(p) ==
    Try(Parser_consume(p, "Identifier", "Expect variable name."), LAMBDA name :
    Try(IF Parser_match_token(name.s, {"Equal"}).matched
        THEN Parser_expression(Parser_advance(name.s))
        ELSE Res(name.s, Ok(ExprNil)),
        LAMBDA initializer :
    Try(Parser_consume(initializer.s, "SemiColon",
                       "Expect ';' after variable declaration."),
        LAMBDA semi : Res(semi.s, Ok(StmtVar(name.r.value, initializer.r.value))))))

Parser_print_statement(p) ==
    Try(Parser_expression(p), LAMBDA value :
    Try(Parser_consume(value.s, "SemiColon", "Expect ';' after value."), LAMBDA semi :
        Res(semi.s, Ok(StmtPrint(value.r.value)))))

Parser_expression_statement(p) ==
    Try(Parser_expression(p), LAMBDA expr :
    Try(Parser_consume(expr.s, "SemiColon", "Expect ';' after expression."),
        LAMBDA semi : Res(semi.s, Ok(StmtExpression(expr.r.value)))))

\* the initializer clause of for_statement
Parser_for_initializer(p) ==
    IF Parser_match_token(p, {"SemiColon"}).matched
    THEN Res(Parser_advance(p), Ok(StmtNil))
    ELSE IF Parser_match_token(p, {"Var"}).matched
    THEN Parser_var_declaration(Parser_advance(p))
    ELSE Parser_expression_statement(p)

\* the statement for_statement builds from its clauses and its body
Parser_for_desugared(initializer, condition, increment, body) ==
    Then(IF increment.k # "Nil"
         THEN StmtBlock(<<body, StmtExpression(increment)>>) ELSE body,
         LAMBDA with_increment :
    Then(StmtWhile(IF condition.k = "Nil" THEN ExprLiteral(Bool(TRUE)) ELSE condition,
                   with_increment),
         LAMBDA loop :
             IF initializer.k # "Nil" THEN StmtBlock(<<initializer, loop>>) ELSE loop))

Parser_for_statement(p) ==
    Try(Parser_consume(p, "LeftParen", "Expect '(' after 'for'."), LAMBDA paren :
    Try(Parser_for_initializer(paren.s), LAMBDA initializer :
    Try(IF ~Parser_check(initializer.s, "SemiColon")
        THEN Parser_expression(initializer.s) ELSE Res(initializer.s, Ok(ExprNil)),
        LAMBDA condition :
    Try(Parser_consume(condition.s, "SemiColon", "Expect ';' after loop condition."),
        LAMBDA semi :
    Try(IF ~Parser_check(semi.s, "RightParen")
        THEN Parser_expression(semi.s) ELSE Res(semi.s, Ok(ExprNil)),
        LAMBDA increment :
    Try(Parser_consume(increment.s, "RightParen", "Expect ')' after for clauses."),
        LAMBDA close :
    Try(Parser_statement(close.s), LAMBDA body :
        Res(body.s, Ok(Parser_for_desugared(initializer.r.value, condition.r.value,
                                            increment.r.value, body.r.value))))))))))

Parser_while_statement(p) ==
    Try(Parser_consume(p, "LeftParen", "Expect '(' after 'while'."), LAMBDA paren :
    Try(Parser_expression(paren.s), LAMBDA condition :
    Try(Parser_consume(condition.s, "RightParen", "Expect ')' after condition."),
        LAMBDA close :
    Try(Parser_statement(close.s), LAMBDA body :
        Res(body.s, Ok(StmtWhile(condition.r.value, body.r.value)))))))

Parser_if_statement(p) ==
    Try(Parser_consume(p, "LeftParen", "Expect '(' after 'if'."), LAMBDA paren :
    Try(Parser_expression(paren.s), LAMBDA condition :
    Try(Parser_consume(condition.s, "RightParen", "Expect ')' after 'if' condition."),
        LAMBDA close :
    Try(Parser_statement(close.s), LAMBDA then_branch :
    Try(IF Parser_match_token(then_branch.s, {"Else"}).matched
        THEN Parser_statement(Parser_advance(then_branch.s))
        ELSE Res(then_branch.s, Ok(StmtNil)),
        LAMBDA else_branch :
            Res(else_branch.s, Ok(StmtIf(condition.r.value, then_branch.r.value,
                                         else_branch.r.value))))))))

\* the while loop of block
Parser_block_loop(p, statements) ==
    IF Parser_check(p, "RightBrace") \/ Parser_is_at_end(p)
    THEN Res(p, Ok(statements))
    ELSE Then(Parser_declaration(p), LAMBDA declaration :
             Parser_block_loop(declaration.s,
                 IF declaration.r.tag = "Ok"
                 THEN Append(statements, declaration.r.value) ELSE statements))

Parser_block(p) ==
    Try(Parser_block_loop(p, <<>>), LAMBDA statements :
    Try(Parser_consume(statements.s, "RightBrace", "Expect '}' after block."),
        LAMBDA brace : Res(brace.s, Ok(statements.r.value))))

Parser_statement(p) ==
    IF Parser_match_token(p, {"For"}).matched
    THEN Parser_for_statement(Parser_advance(p))
    ELSE IF Parser_match_token(p, {"If"}).matched
    THEN Parser_if_statement(Parser_advance(p))
    ELSE IF Parser_match_token(p, {"Print"}).matched
    THEN Parser_print_statement(Parser_advance(p))
    ELSE IF Parser_match_token(p, {"While"}).matched
    THEN Parser_while_statement(Parser_advance(p))
    ELSE IF Parser_match_token(p, {"LeftBrace"}).matched
    THEN Try(Parser_block(Parser_advance(p)), LAMBDA statements :
             Res(statements.s, Ok(StmtBlock(statements.r.value))))
    ELSE Parser_expression_statement(p)

\* the closure `steps` of declaration
Parser_declaration_steps(p) ==
    IF Parser_match_token(p, {"Var"}).matched
    THEN Parser_var_declaration(Parser_advance(p))
    ELSE Parser_statement(p)

\* Option<Stmt>: Ok(stmt) is Some(stmt); the ParseError of a None is dropped
\* by the source and kept here in the history only
None == [tag |-> "None"]

Parser_declaration(p) ==
    Then(Parser_declaration_steps(p), LAMBDA steps :
        IF steps.r.tag = "Ok" THEN steps
        ELSE Res(Parser_synchronize(
                     Log(steps.s, [ev |-> "parse_error", error |-> steps.r])),
                 None))

-----------------------------------------------------------------------------
(* scanner.rs: Scanner { source, start, current, line }, the scanner of the *)
(* bytecode compiler.  A source is a sequence of one-character strings, all *)
(* ASCII, so that a char is one byte; offsets count from 0 as in the        *)
(* source.  `sc` is [start, current, line].                                 *)

\* Option<char>::None, and the '\0' that unwrap_or('\0') makes of it
NoChar == ""

Digits == {"0", "1", "2", "3", "4", "5", "6", "7", "8", "9"}
Letters == {"a", "b", "c", "d", "e", "f", "g", "h", "i", "j", "k", "l", "m", "n",
            "o", "p", "q", "r", "s", "t", "u", "v", "w", "x", "y", "z", "_",
            "A", "B", "C", "D", "E", "F", "G", "H", "I", "J", "K", "L", "M", "N",
            "O", "P", "Q", "R", "S", "T", "U", "V", "W", "X", "Y", "Z"}

\* source[from..to], as the string it is
RECURSIVE Slice(_, _, _)
Slice(source, from, to) ==
    IF from >= to THEN "" ELSE source[from + 1] \o Slice(source, from + 1, to)

TokenError(line, message) ==
    [tag |-> "Err", kind |-> "TokenError", line |-> line, message |-> message]

Scanner_new == [start |-> 0, current |-> 0, line |-> 1]

Scanner_is_digit(c) == c \in Digits
Scanner_is_alpha(c) == c \in Letters
Scanner_is_alpha_numeric(c) == Scanner_is_alpha(c) \/ Scanner_is_digit(c)

Scanner_is_at_end(source, sc) == sc.current >= Len(source)

\* source[at..].chars().next()
CharAt(source, at) == IF at < Len(source) THEN source[at + 1] ELSE NoChar

Scanner_peek(source, sc) == CharAt(source, sc.current)
Scanner_peek_next(source, sc) == CharAt(source, sc.current + 1)
Scanner_from_start(source, sc, start_offset) == CharAt(source, sc.start + start_offset)

\* the scanner after advance(); the char it returns is the one peeked before
Scanner_advance(sc) == [sc EXCEPT !.current = @ + 1]

\* the scanner after match_str(expected), which says whether it moved
Scanner_match_str(source, sc, expected) ==
    IF Scanner_is_at_end(source, sc) THEN sc
    ELSE IF Scanner_peek(source, sc) # expected THEN sc
    ELSE [sc EXCEPT !.current = @ + 1]

\* Token of the bytecode compiler
Scanner_make_token(sc, token_type) ==
    [token_type |-> token_type, start |-> sc.start,
     length |-> sc.current - sc.start, line |-> sc.line]

\* Token::slice(source)
Token_slice(token, source) == Slice(source, token.start, token.start + token.length)

\* the inner loop of skip_whitespace over a // comment
RECURSIVE Scanner_skip_comment(_, _)
Scanner_skip_comment(source, sc) ==
    IF Scanner_peek(source, sc) # "\n" /\ ~Scanner_is_at_end(source, sc)
    THEN Scanner_skip_comment(source, Scanner_advance(sc))
    ELSE sc

RECURSIVE Scanner_skip_whitespace(_, _)
Scanner_skip_whitespace(source, sc) ==
    CASE Scanner_peek(source, sc) \in {" ", "\r", "\t"} ->
           Scanner_skip_whitespace(source, Scanner_advance(sc))
      [] Scanner_peek(source, sc) = "\n" ->
           Scanner_skip_whitespace(source,
               [Scanner_advance(sc) EXCEPT !.line = @ + 1])
      [] Scanner_peek(source, sc) = "/" ->
           (IF Scanner_peek_next(source, sc) = "/"
            THEN Scanner_skip_whitespace(source, Scanner_skip_comment(source, sc))
            ELSE sc)
      [] OTHER -> sc

\* the while loop of string
RECURSIVE Scanner_string_loop(_, _)
Scanner_string_loop(source, sc) ==
    IF Scanner_peek(source, sc) # "\"" /\ ~Scanner_is_at_end(source, sc)
    THEN Scanner_string_loop(source,
             Scanner_advance(IF Scanner_peek(source, sc) = "\n"
                             THEN [sc EXCEPT !.line = @ + 1] ELSE sc))
    ELSE sc

Scanner_string(source, sc) ==
    Then(Scanner_string_loop(source, sc), LAMBDA at_quote :
        IF Scanner_is_at_end(source, at_quote)
        THEN Res(at_quote, TokenError(at_quote.line, "Unterminated string."))
        ELSE Res(Scanner_advance(at_quote),
                 Ok(Scanner_make_token(Scanner_advance(at_quote), "String"))))

\* the while loops of number
RECURSIVE Scanner_digits(_, _)
Scanner_digits(source, sc) ==
    IF Scanner_is_digit(Scanner_peek(source, sc))
    THEN Scanner_digits(source, Scanner_advance(sc))
    ELSE sc

Scanner_number(source, sc) ==
    Then(Scanner_digits(source, sc), LAMBDA whole :
    Then(IF /\ Scanner_peek(source, whole) = "."
            /\ Scanner_is_digit(Scanner_peek_next(source, whole))
         THEN Scanner_digits(source, Scanner_advance(whole))
         ELSE whole,
         LAMBDA all : Res(all, Ok(Scanner_make_token(all, "Number")))))

\* the while loop of identifier
RECURSIVE Scanner_identifier_loop(_, _)
Scanner_identifier_loop(source, sc) ==
    IF Scanner_is_alpha_numeric(Scanner_peek(source, sc))
    THEN Scanner_identifier_loop(source, Scanner_advance(sc))
    ELSE sc

Scanner_check_keyword(source, sc, start_offset, rest, token_type) ==
    IF Slice(source, sc.start + start_offset, sc.current) = rest
    THEN token_type ELSE "Identifier"

Scanner_identifier_type(source, sc) ==
    CASE Scanner_from_start(source, sc, 0) = "a" ->
           Scanner_check_keyword(source, sc, 1, "nd", "And")
      [] Scanner_from_start(source, sc, 0) = "c" ->
           Scanner_check_keyword(source, sc, 1, "lass", "Class")
      [] Scanner_from_start(source, sc, 0) = "e" ->
           Scanner_check_keyword(source, sc, 1, "lse", "Else")
      [] Scanner_from_start(source, sc, 0) = "i" ->
           Scanner_check_keyword(source, sc, 1, "f", "If")
      [] Scanner_from_start(source, sc, 0) = "n" ->
           Scanner_check_keyword(source, sc, 1, "il", "Nil")
      [] Scanner_from_start(source, sc, 0) = "o" ->
           Scanner_check_keyword(source, sc, 1, "r", "Or")
      [] Scanner_from_start(source, sc, 0) = "p" ->
           Scanner_check_keyword(source, sc, 1, "rint", "Print")
      [] Scanner_from_start(source, sc, 0) = "r" ->
           Scanner_check_keyword(source, sc, 1, "eturn", "Return")
      [] Scanner_from_start(source, sc, 0) = "s" ->
           Scanner_check_keyword(source, sc, 1, "uper", "Super")
      [] Scanner_from_start(source, sc, 0) = "v" ->
           Scanner_check_keyword(source, sc, 1, "ar", "Var")
      [] Scanner_from_start(source, sc, 0) = "w" ->
           Scanner_check_keyword(source, sc, 1, "hile", "While")
      [] Scanner_from_start(source, sc, 0) = "f" ->
           (CASE Scanner_from_start(source, sc, 1) = "a" ->
                   Scanner_check_keyword(source, sc, 2, "lse", "False")
              [] Scanner_from_start(source, sc, 1) = "o" ->
                   Scanner_check_keyword(source, sc, 2, "r", "For")
              [] Scanner_from_start(source, sc, 1) = "u" ->
                   Scanner_check_keyword(source, sc, 2, "n", "Fun")
              [] OTHER -> "Identifier")
      [] Scanner_from_start(source, sc, 0) = "t" ->
           (CASE Scanner_from_start(source, sc, 1) = "h" ->
                   Scanner_check_keyword(source, sc, 2, "is", "This")
              [] Scanner_from_start(source, sc, 1) = "r" ->
                   Scanner_check_keyword(source, sc, 2, "ue", "True")
              [] OTHER -> "Identifier")
      [] OTHER -> "Identifier"

Scanner_identifier(source, sc) ==
    Then(Scanner_identifier_loop(source, sc), LAMBDA all :
        Res(all, Ok(Scanner_make_token(all, Scanner_identifier_type(source, all)))))

\* the token types of the one-character tokens
SingleChar ==
    [c \in {"(", ")", "{", "}", ";", ",", ".", "-", "+", "/", "*"} |->
        CASE c = "(" -> "LeftParen" [] c = ")" -> "RightParen"
          [] c = "{" -> "LeftBrace" [] c = "}" -> "RightBrace"
          [] c = ";" -> "SemiColon" [] c = "," -> "Comma" [] c = "." -> "Dot"
          [] c = "-" -> "Minus" [] c = "+" -> "Plus" [] c = "/" -> "Slash"
          [] c = "*" -> "Star"]

\* the token types of the tokens that a '=' may follow: alone, with '='
OneOrTwoChar ==
    [c \in {"!", "=", "<", ">"} |->
        CASE c = "!" -> <<"Bang", "BangEqual">>
          [] c = "=" -> <<"Equal", "EqualEqual">>
          [] c = "<" -> <<"Less", "LessEqual">>
          [] c = ">" -> <<"Greater", "GreaterEqual">>]

\* the match of scan_token on the char c that advance() returned
Scanner_match_char(source, sc, c) ==
    CASE c = "\"" -> Scanner_string(source, sc)
      [] c \in DOMAIN SingleChar -> Res(sc, Ok(Scanner_make_token(sc, SingleChar[c])))
      [] c \in DOMAIN OneOrTwoChar ->
           Then(Scanner_match_str(source, sc, "="), LAMBDA matched :
               Res(matched, Ok(Scanner_make_token(matched,
                   IF matched # sc THEN OneOrTwoChar[c][2] ELSE OneOrTwoChar[c][1]))))
      [] OTHER -> Res(sc, TokenError(sc.line, "Unexpected character."))

\* a variant of scan_token that leaves start where the token before began
Scanner_scan_token_unmoved(source, sc) ==
    Then(Scanner_skip_whitespace(source, sc), LAMBDA started :
             IF Scanner_is_at_end(source, started)
             THEN Res(started, Ok(Scanner_make_token(started, "EOF")))
             ELSE Then(Scanner_peek(source, started), LAMBDA c :
                  Then(Scanner_advance(started), LAMBDA after :
                       IF Scanner_is_digit(c) THEN Scanner_number(source, after)
                       ELSE IF Scanner_is_alpha(c) THEN Scanner_identifier(source, after)
                       ELSE Scanner_match_char(source, after, c))))

Scanner_scan_token(source, sc) ==
    Then(Scanner_skip_whitespace(source, sc), LAMBDA skipped :
    Then([skipped EXCEPT !.start = skipped.current], LAMBDA started :
             IF Scanner_is_at_end(source, started)
             THEN Res(started, Ok(Scanner_make_token(started, "EOF")))
             ELSE Then(Scanner_peek(source, started), LAMBDA c :
                  Then(Scanner_advance(started), LAMBDA after :
                       IF Scanner_is_digit(c) THEN Scanner_number(source, after)
                       ELSE IF Scanner_is_alpha(c) THEN Scanner_identifier(source, after)
                       ELSE Scanner_match_char(source, after, c)))))

-----------------------------------------------------------------------------
(* chunk.rs: OpCode and Chunk { lines, code, constants } *)

\* enum OpCode, in the order of its discriminants
OpCodes == <<"OpConstant", "OpNil", "OpTrue", "OpFalse", "OpPop", "OpDefineGlobal",
             "OpGetGlobal", "OpSetGlobal", "OpEqual", "OpGreater", "OpLess", "OpAdd",
             "OpSubtract", "OpMultiply", "OpDivide", "OpNot", "OpNegate", "OpPrint",
             "OpReturn">>

\* OpCode::X as u8
Op(name) == (CHOOSE i \in DOMAIN OpCodes : OpCodes[i] = name) - 1

\* OpCode::from_u8
OpCode_from_u8(byte) == IF byte < Len(OpCodes) THEN OpCodes[byte + 1] ELSE "None"

Chunk_new == [lines |-> <<>>, code |-> <<>>, constants |-> <<>>]

\* a variant of write that keeps one line for a run of bytes of that line
Chunk_write_runs(chunk, byte, line) ==
    [chunk EXCEPT !.code = Append(@, byte),
                  !.lines = IF @ # <<>> /\ @[Len(@)] = line THEN @
                            ELSE Append(@, line)]

Chunk_write(chunk, byte, line) ==
    [chunk EXCEPT !.code = Append(@, byte), !.lines = Append(@, line)]

\* the chunk after add_constant, which returns constants.len() - 1 of it
Chunk_add_constant(chunk, value) == [chunk EXCEPT !.constants = Append(@, value)]

-----------------------------------------------------------------------------
(* compiler.rs: Compiler { current_chunk, parser, scanner, parse_rules }.   *)
(* `c` is the compiler, with the source, what it printed on stderr, and its *)
(* history: operands[i] is the byte that make_constant returned for the     *)
(* i-th constant, errors_at the messages of the diagnostics of error_at.    *)

U8Max == 255

\* `n as u8` of a usize
AsU8(n) == n % (U8Max + 1)

\* enum Precedence as u8
Precedence ==
    [None |-> 0, Assignment |-> 1, Or |-> 2, And |-> 3, Equality |-> 4,
     Comparison |-> 5, Term |-> 6, Factor |-> 7, Unary |-> 8, Call |-> 9,
     Primary |-> 10]

CompilerError(line, message) ==
    [tag |-> "Err", kind |-> "CompilerError", line |-> line, message |-> message]

\* Option<Token>::None
NoToken == [token_type |-> "None"]

\* the Token that unwrap_or puts in the place of None
EofToken == [token_type |-> "EOF", start |-> 0, length |-> 0, line |-> 0]

ParseRule(prefix, infix, precedence) ==
    [prefix |-> prefix, infix |-> infix, precedence |-> precedence]

\* the table that Compiler::new fills
parse_rules(token_type) ==
    CASE token_type = "LeftParen" -> ParseRule("grouping", "None", Precedence.None)
      [] token_type = "Minus" -> ParseRule("unary", "binary", Precedence.Term)
      [] token_type = "Plus" -> ParseRule("None", "binary", Precedence.Term)
      [] token_type \in {"Slash", "Star"} ->
           ParseRule("None", "binary", Precedence.Factor)
      [] token_type = "Bang" -> ParseRule("unary", "None", Precedence.None)
      [] token_type \in {"BangEqual", "EqualEqual"} ->
           ParseRule("None", "binary", Precedence.Equality)
      [] token_type \in {"Greater", "GreaterEqual", "Less", "LessEqual"} ->
           ParseRule("None", "binary", Precedence.Comparison)
      [] token_type = "Identifier" -> ParseRule("variable", "None", Precedence.None)
      [] token_type = "String" -> ParseRule("string", "None", Precedence.None)
      [] token_type = "Number" -> ParseRule("number", "None", Precedence.None)
      [] token_type \in {"False", "Nil", "True"} ->
           ParseRule("literal", "None", Precedence.None)
      [] OTHER -> ParseRule("None", "None", Precedence.None)

\* Compiler::new(source); had_error and panic_mode are as Parser::new left them
Compiler_new(source, had_error, panic_mode) ==
    [source |-> source,
     scanner |-> Scanner_new,
     parser |-> [current |-> NoToken, previous |-> NoToken,
                 had_error |-> had_error, panic_mode |-> panic_mode],
     chunk |-> Chunk_new,
     stderr |-> <<>>,
     operands |-> <<>>,
     errors_at |-> <<>>]

Compiler_curr(c) ==
    IF c.parser.current = NoToken
    THEN Res(c, CompilerError(0, "Current token is undefined"))
    ELSE Res(c, Ok(c.parser.current))

Compiler_prev(c) ==
    IF c.parser.previous = NoToken
    THEN Res(c, CompilerError(0, "Current token is undefined"))
    ELSE Res(c, Ok(c.parser.previous))

\* what error_at prints for a token
ErrorAtLine(token, source, message) ==
    "[line " \o ToString(token.line) \o "] Error"
    \o (IF token.token_type = "EOF" THEN " at end"
        ELSE " at '" \o Token_slice(token, source) \o "'")
    \o ": " \o message

\* a variant of error_at that reports in panic mode as well
Compiler_error_at_always(c, some_token, message) ==
    [c EXCEPT !.parser.panic_mode = TRUE,
              !.parser.had_error = TRUE,
              !.stderr = Append(@, ErrorAtLine(
                  IF some_token = NoToken THEN EofToken ELSE some_token,
                  c.source, message)),
              !.errors_at = Append(@, message)]

Compiler_error_at(c, some_token, message) ==
    IF c.parser.panic_mode THEN c
    ELSE [c EXCEPT !.parser.panic_mode = TRUE,
                   !.parser.had_error = TRUE,
                   !.stderr = Append(@, ErrorAtLine(
                       IF some_token = NoToken THEN EofToken ELSE some_token,
                       c.source, message)),
                   !.errors_at = Append(@, message)]

Compiler_error_at_current(c, message) == Compiler_error_at(c, c.parser.current, message)

Compiler_error(c, message) == Compiler_error_at(c, c.parser.previous, message)

\* advance: scan_token gives Some(token) or an Err, so the loop runs once
Compiler_advance(c) ==
    Then(Scanner_scan_token(c.source, c.scanner), LAMBDA scanned :
        IF scanned.r.tag # "Ok"
        THEN Res([c EXCEPT !.parser.previous = c.parser.current,
                           !.scanner = scanned.s],
                 scanned.r)
        ELSE Res([c EXCEPT !.parser.previous = c.parser.current,
                           !.parser.current = scanned.r.value,
                           !.scanner = scanned.s],
                 Ok(Unit)))

Compiler_check(c, token_type) ==
    Try(Compiler_curr(c), LAMBDA curr :
        Res(c, Ok(curr.r.value.token_type = token_type)))

Compiler_match_token(c, token_type) ==
    Try(Compiler_check(c, token_type), LAMBDA check :
        IF ~check.r.value THEN Res(c, Ok(FALSE))
        ELSE Try(Compiler_advance(c), LAMBDA advanced : Res(advanced.s, Ok(TRUE))))

Compiler_consume(c, token_type, message) ==
    Try(Compiler_curr(c), LAMBDA curr :
        IF curr.r.value.token_type = token_type THEN Compiler_advance(c)
        ELSE Res(Compiler_error_at_current(c, message), Ok(Unit)))

Compiler_emit_byte(c, byte) ==
    Try(Compiler_prev(c), LAMBDA prev :
        Res([c EXCEPT !.chunk = Chunk_write(@, byte, prev.r.value.line)], Ok(Unit)))

Compiler_emit_bytes(c, byte1, byte2) ==
    Try(Compiler_emit_byte(c, byte1), LAMBDA first :
        Compiler_emit_byte(first.s, byte2))

Compiler_emit_return(c) == Compiler_emit_byte(c, Op("OpReturn"))

\* make_constant: the compiler after it, with the u8 it returns
Compiler_make_constant(c, value) ==
    Then([c EXCEPT !.chunk = Chunk_add_constant(@, value)], LAMBDA added :
    Then(AsU8(Len(added.chunk.constants) - 1), LAMBDA constant :
        IF constant > U8Max
        THEN Res([Compiler_error(added, "Too many constants in one chunk.")
                     EXCEPT !.operands = Append(@, 0)], 0)
        ELSE Res([added EXCEPT !.operands = Append(@, constant)], constant)))

Compiler_emit_constant(c, value) ==
    Then(Compiler_make_constant(c, value), LAMBDA pos :
        Compiler_emit_bytes(pos.s, Op("OpConstant"), pos.r))

Compiler_copy_string(c, start, length) == Slice(c.source, start, start + length)

Compiler_identifier_constant(c, name) ==
    Compiler_make_constant(c, String(Compiler_copy_string(c, name.start, name.length)))

\* str::parse::<f64> of the digits of a number token; the model's numbers
\* are integers, so what follows a '.' is not read
RECURSIVE ParseDigits(_, _)
ParseDigits(text, value) ==
    IF text = <<>> \/ Head(text) \notin Digits THEN value
    ELSE ParseDigits(Tail(text),
                     10 * value + (CHOOSE d \in 0..9 : ToString(d) = Head(text)))

RECURSIVE Compiler_parse_precedence(_, _)
RECURSIVE Compiler_infix_loop(_, _, _)

Compiler_expression(c) == Compiler_parse_precedence(c, Precedence.Assignment)

Compiler_grouping(c, can_assign) ==
    Try(Compiler_expression(c), LAMBDA expression :
        Compiler_consume(expression.s, "RightParen", "Expect ')' after expression."))

Compiler_number(c, can_assign) ==
    Try(Compiler_prev(c), LAMBDA prev :
        Compiler_emit_constant(c,
            Number(ParseDigits(SubSeq(c.source, prev.r.value.start + 1,
                                      prev.r.value.start + prev.r.value.length), 0))))

Compiler_string(c, can_assign) ==
    Try(Compiler_prev(c), LAMBDA prev :
        Compiler_emit_constant(c,
            String(Compiler_copy_string(c, prev.r.value.start + 1,
                                        prev.r.value.length - 2))))

Compiler_literal(c, can_assign) ==
    Try(Compiler_prev(c), LAMBDA prev :
        CASE prev.r.value.token_type = "True" -> Compiler_emit_byte(c, Op("OpTrue"))
          [] prev.r.value.token_type = "Nil" -> Compiler_emit_byte(c, Op("OpNil"))
          [] prev.r.value.token_type = "False" -> Compiler_emit_byte(c, Op("OpFalse")))

Compiler_unary(c, can_assign) ==
    Try(Compiler_prev(c), LAMBDA prev :
    Try(Compiler_parse_precedence(c, Precedence.Unary), LAMBDA operand :
        CASE prev.r.value.token_type = "Bang" ->
               Compiler_emit_byte(operand.s, Op("OpNot"))
          [] prev.r.value.token_type = "Minus" ->
               Compiler_emit_byte(operand.s, Op("OpNegate"))))

\* the match of binary on the operator
Compiler_binary_emit(c, operator_type) ==
    CASE operator_type = "Plus" -> Compiler_emit_byte(c, Op("OpAdd"))
      [] operator_type = "Minus" -> Compiler_emit_byte(c, Op("OpSubtract"))
      [] operator_type = "Star" -> Compiler_emit_byte(c, Op("OpMultiply"))
      [] operator_type = "Slash" -> Compiler_emit_byte(c, Op("OpDivide"))
      [] operator_type = "BangEqual" -> Compiler_emit_bytes(c, Op("OpEqual"), Op("OpNot"))
      [] operator_type = "EqualEqual" -> Compiler_emit_byte(c, Op("OpEqual"))
      [] operator_type = "Greater" -> Compiler_emit_byte(c, Op("OpGreater"))
      [] operator_type = "GreaterEqual" ->
           Compiler_emit_bytes(c, Op("OpLess"), Op("OpNot"))
      [] operator_type = "Less" -> Compiler_emit_byte(c, Op("OpLess"))
      [] operator_type = "LessEqual" ->
           Compiler_emit_bytes(c, Op("OpGreater"), Op("OpNot"))

Compiler_binary(c, can_assign) ==
    Try(Compiler_prev(c), LAMBDA prev :
        IF parse_rules(prev.r.value.token_type).precedence + 1 > Precedence.Primary
        THEN Res(c, CompilerError(prev.r.value.line, "Invalid Precedence"))
        ELSE Try(Compiler_parse_precedence(c,
                     parse_rules(prev.r.value.token_type).precedence + 1),
                 LAMBDA operand :
                     Compiler_binary_emit(operand.s, prev.r.value.token_type)))

\* a variant of named_variable that takes an `=` whatever can_assign says
Compiler_named_variable_always(c, token, can_assign) ==
    Then(Compiler_identifier_constant(c, token), LAMBDA arg :
    Try(Compiler_match_token(arg.s, "Equal"), LAMBDA equal :
        IF equal.r.value
        THEN Try(Compiler_expression(equal.s), LAMBDA value :
                 Compiler_emit_bytes(value.s, Op("OpSetGlobal"), arg.r))
        ELSE Compiler_emit_bytes(equal.s, Op("OpGetGlobal"), arg.r)))

Compiler_named_variable(c, token, can_assign) ==
    Then(Compiler_identifier_constant(c, token), LAMBDA arg :
    Try(IF can_assign THEN Compiler_match_token(arg.s, "Equal")
        ELSE Res(arg.s, Ok(FALSE)),
        LAMBDA equal :
            IF equal.r.value
            THEN Try(Compiler_expression(equal.s), LAMBDA value :
                     Compiler_emit_bytes(value.s, Op("OpSetGlobal"), arg.r))
            ELSE Compiler_emit_bytes(equal.s, Op("OpGetGlobal"), arg.r)))

Compiler_variable(c, can_assign) ==
    Try(Compiler_prev(c), LAMBDA prev :
        Compiler_named_variable(c, prev.r.value, can_assign))

\* a call through a ParseFn of the table
ParseFn(rule, c, can_assign) ==
    CASE rule = "grouping" -> Compiler_grouping(c, can_assign)
      [] rule = "number" -> Compiler_number(c, can_assign)
      [] rule = "unary" -> Compiler_unary(c, can_assign)
      [] rule = "binary" -> Compiler_binary(c, can_assign)
      [] rule = "literal" -> Compiler_literal(c, can_assign)
      [] rule = "string" -> Compiler_string(c, can_assign)
      [] rule = "variable" -> Compiler_variable(c, can_assign)

\* the while loop of parse_precedence; its value says whether
\* parse_precedence goes on after the loop (TRUE) or has returned in it
Compiler_infix_loop(c, pre, can_assign) ==
    Try(Compiler_curr(c), LAMBDA curr :
        IF ~(pre <= parse_rules(curr.r.value.token_type).precedence)
        THEN Res(c, Ok(TRUE))
        ELSE Try(Compiler_advance(c), LAMBDA advanced :
             Try(Compiler_prev(advanced.s), LAMBDA prev :
                 IF parse_rules(prev.r.value.token_type).infix = "None"
                 THEN Res(Compiler_error(advanced.s, "Expect expression."), Ok(FALSE))
                 ELSE Try(ParseFn(parse_rules(prev.r.value.token_type).infix,
                                  advanced.s, can_assign),
                          LAMBDA infix :
                              Compiler_infix_loop(infix.s, pre, can_assign)))))

Compiler_parse_precedence(c, precedence) ==
    Try(Compiler_advance(c), LAMBDA advanced :
    Try(Compiler_prev(advanced.s), LAMBDA prev :
        IF parse_rules(prev.r.value.token_type).prefix = "None"
        THEN Res(Compiler_error(advanced.s, "Expect expression."), Ok(Unit))
        ELSE Then(precedence <= Precedence.Assignment, LAMBDA can_assign :
             Try(ParseFn(parse_rules(prev.r.value.token_type).prefix,
                         advanced.s, can_assign),
                 LAMBDA prefix :
             Try(Compiler_infix_loop(prefix.s, precedence, can_assign), LAMBDA looped :
                 IF ~looped.r.value THEN Res(looped.s, Ok(Unit))
                 ELSE Try(IF can_assign THEN Compiler_match_token(looped.s, "Equal")
                          ELSE Res(looped.s, Ok(FALSE)),
                          LAMBDA equal :
                              IF equal.r.value
                              THEN Res(Compiler_error(equal.s,
                                           "Invalid assignment target."), Ok(Unit))
                              ELSE Res(equal.s, Ok(Unit))))))))

Compiler_parse_variable(c, message) ==
    Try(Compiler_consume(c, "Identifier", message), LAMBDA consumed :
    Try(Compiler_prev(consumed.s), LAMBDA prev :
    Then(Compiler_identifier_constant(consumed.s, prev.r.value), LAMBDA constant :
        Res(constant.s, Ok(constant.r)))))

Compiler_define_variable(c, global) ==
    Compiler_emit_bytes(c, Op("OpDefineGlobal"), global)

Compiler_var_declaration(c) ==
    Try(Compiler_parse_variable(c, "Expect variable name."), LAMBDA global :
    Try(Compiler_match_token(global.s, "Equal"), LAMBDA equal :
    Try(IF equal.r.value THEN Compiler_expression(equal.s)
        ELSE Compiler_emit_byte(equal.s, Op("OpNil")),
        LAMBDA initializer :
    Try(Compiler_consume(initializer.s, "SemiColon",
                         "Expect ';' after variable declaration."),
        LAMBDA semi : Compiler_define_variable(semi.s, global.r.value)))))

Compiler_print_statement(c) ==
    Try(Compiler_expression(c), LAMBDA expression :
    Try(Compiler_consume(expression.s, "SemiColon", "Expect ';' after value."),
        LAMBDA semi : Compiler_emit_byte(semi.s, Op("OpPrint"))))

Compiler_expression_statement(c) ==
    Try(Compiler_expression(c), LAMBDA expression :
    Try(Compiler_consume(expression.s, "SemiColon", "Expect ';' after expression."),
        LAMBDA semi : Compiler_emit_byte(semi.s, Op("OpPop"))))

Compiler_statement(c) ==
    Try(Compiler_match_token(c, "Print"), LAMBDA print :
        IF print.r.value THEN Compiler_print_statement(print.s)
        ELSE Compiler_expression_statement(print.s))

\* the while loop of synchronize
RECURSIVE Compiler_synchronize_loop(_)
Compiler_synchronize_loop(c) ==
    Try(Compiler_curr(c), LAMBDA curr :
        IF curr.r.value.token_type = "EOF" THEN Res(c, Ok(Unit))
        ELSE Try(Compiler_prev(c), LAMBDA prev :
                 IF prev.r.value.token_type = "SemiColon" THEN Res(c, Ok(Unit))
                 ELSE IF prev.r.value.token_type \in RecoverAt THEN Res(c, Ok(Unit))
                 ELSE Try(Compiler_advance(c), LAMBDA advanced :
                          Compiler_synchronize_loop(advanced.s))))

Compiler_synchronize(c) ==
    Compiler_synchronize_loop([c EXCEPT !.parser.panic_mode = FALSE])

Compiler_declaration(c) ==
    Try(Compiler_match_token(c, "Var"), LAMBDA var :
    Try(IF var.r.value THEN Compiler_var_declaration(var.s)
        ELSE Compiler_statement(var.s),
        LAMBDA declared :
            IF declared.s.parser.panic_mode THEN Compiler_synchronize(declared.s)
            ELSE Res(declared.s, Ok(Unit))))

Compiler_end(c) == Compiler_emit_return(c)

\* compile, up to its loop
Compiler_compile_begin(c) ==
    Compiler_advance([c EXCEPT !.parser.panic_mode = FALSE,
                               !.parser.had_error = FALSE])

\* a variant of compile's result that forgets the diagnostics
Compiler_compile_result_always(c) == TRUE

\* what compile returns when its loop has ended: Ok(!had_error)
Compiler_compile_result(c) == ~c.parser.had_error

-----------------------------------------------------------------------------
(* The programs the resolver and the interpreter are run on: every          *)
(* sequence of at most MaxProgLen of the statements below.                  *)

MaxProgLen == 3
MaxClock == 1

Id(name, line) == Tok("Identifier", name, line)
Var(name, line) == ExprVariable(Id(name, line))
Lit(value) == ExprLiteral(value)
CallOf(name, arguments, line) ==
    ExprCall(Var(name, line), Tok("RightParen", ")", line), arguments)

\* var a = "global";
DeclareGlobalA == StmtVar(Id("a", 1), Lit(String("global")))

\* { fun show() { print a; } show(); var a = "local"; show(); }
ScopeBlock ==
    StmtBlock(<<StmtFunction(Id("show", 2), <<>>, <<StmtPrint(Var("a", 2))>>),
                StmtExpression(CallOf("show", <<>>, 2)),
                StmtVar(Id("a", 2), Lit(String("local"))),
                StmtExpression(CallOf("show", <<>>, 2))>>)

\* fun pick(x) { while (true) { if (a) { return "first"; } return "second"; } }
DeclarePick ==
    StmtFunction(Id("pick", 3), <<Id("x", 3)>>,
        <<StmtWhile(Lit(Bool(TRUE)),
            StmtBlock(<<StmtIf(Var("a", 3),
                               StmtBlock(<<StmtReturn(Tok("Return", "return", 3),
                                                      Lit(String("first")))>>),
                               StmtNil),
                        StmtReturn(Tok("Return", "return", 3),
                                   Lit(String("second")))>>))>>)

\* print pick(7);
CallPick == StmtPrint(CallOf("pick", <<Lit(Number(7))>>, 4))

\* print pick();
CallPickNoArgs == StmtPrint(CallOf("pick", <<>>, 5))

\* fun inner() { a = nil; }
DeclareInner ==
    StmtFunction(Id("inner", 6), <<>>,
                 <<StmtExpression(ExprAssign(Id("a", 6), Lit(Nil)))>>)

\* fun outer(p, q) { print inner(); return q; print "dead"; }
DeclareOuter ==
    StmtFunction(Id("outer", 7), <<Id("p", 7), Id("q", 7)>>,
        <<StmtPrint(CallOf("inner", <<>>, 7)),
          StmtReturn(Tok("Return", "return", 7), Var("q", 7)),
          StmtPrint(Lit(String("dead")))>>)

\* var q = outer(1, 2);
CallOuter == StmtVar(Id("q", 8), CallOf("outer", <<Lit(Number(1)), Lit(Number(2))>>, 8))

\* print ((a or (a = nil)) and (a = false)) or (a and "x");
LogicalPrint ==
    StmtPrint(ExprLogical(
        ExprGrouping(ExprLogical(
            ExprGrouping(ExprLogical(Var("a", 9), Tok("Or", "or", 9),
                                     ExprGrouping(ExprAssign(Id("a", 9), Lit(Nil))))),
            Tok("And", "and", 9),
            ExprGrouping(ExprAssign(Id("a", 9), Lit(Bool(FALSE)))))),
        Tok("Or", "or", 9),
        ExprGrouping(ExprLogical(Var("a", 9), Tok("And", "and", 9),
                                 Lit(String("x"))))))

\* print "a" - clock();
BadMinus ==
    StmtPrint(ExprBinary(Lit(String("a")), Tok("Minus", "-", 10),
                         CallOf("clock", <<>>, 10)))

\* clock(1);
CallClockOneArg == StmtExpression(CallOf("clock", <<Lit(Number(1))>>, 11))

\* return a;
TopLevelReturn == StmtReturn(Tok("Return", "return", 12), Var("a", 12))

StmtPool == {DeclareGlobalA, ScopeBlock, DeclarePick, CallPick, CallPickNoArgs,
             DeclareInner, DeclareOuter, CallOuter, LogicalPrint, BadMinus,
             CallClockOneArg, TopLevelReturn}

Programs == UNION {[1..n -> StmtPool] : n \in 1..MaxProgLen}

-----------------------------------------------------------------------------
(* The tree-walker run: Resolver::resolve_statements, then                  *)
(* Interpreter::interpret, one iteration of its loop per step.              *)

Globals == 1

\* Interpreter::new: the globals environment with "clock" defined
InterpreterNew ==
    [globals |-> Globals, environment |-> Globals, locals |-> [e \in {} |-> 0]]

HeapNew == <<[Environment_new(NoEnv) EXCEPT !.values = Insert(@, "clock", NativeClock)]>>

\* the evaluator's state, from the variables
Functions(evs) == {i \in DOMAIN evs : evs[i].ev = "declare"}

RunState ==
    [heap |-> heap, globals |-> interpreter.globals,
     environment |-> interpreter.environment, locals |-> interpreter.locals,
     stdout |-> stdout, now |-> clock, nfun |-> Cardinality(Functions(events)),
     events |-> events, depth |-> 0, frame |-> 0]

TwInit ==
    /\ program \in Programs
    /\ pc = "resolve"
    /\ next_stmt = 1
    /\ heap = HeapNew
    /\ interpreter = InterpreterNew
    /\ HAD_ERROR = FALSE
    /\ HAD_RUNTIME_ERROR = FALSE
    /\ stdout = <<>>
    /\ stderr = <<>>
    /\ events = <<>>
    /\ clock \in 1..MaxClock
    /\ parser = [tokens |-> <<>>, current |-> 0]

Resolved == resolve_statements(program, Resolver_new(interpreter.locals))

\* the resolver accepts the program: its distances are in interpreter.locals
Resolve ==
    /\ pc = "resolve"
    /\ \E resolved \in {Resolved} :
          /\ resolved.r.tag = "Ok"
          /\ interpreter' = [interpreter EXCEPT !.locals = resolved.s.locals]
          /\ events' = events \o resolved.s.resolved
    /\ pc' = "interpret"
    /\ UNCHANGED <<program, next_stmt, heap, HAD_ERROR, HAD_RUNTIME_ERROR, stdout,
                   stderr, clock, parser, vm>>

\* the resolver rejects the program: a compile error, nothing is evaluated
ResolveError ==
    /\ pc = "resolve"
    /\ \E resolved \in {Resolved} :
          /\ resolved.r.tag # "Ok"
          /\ stderr' = Append(stderr, ReportLine(resolved.r.line, resolved.r.message))
    /\ HAD_ERROR' = TRUE
    /\ pc' = "done"
    /\ UNCHANGED <<program, next_stmt, heap, interpreter, HAD_RUNTIME_ERROR, stdout,
                   events, clock, parser, vm>>

Executed == execute(program[next_stmt], RunState)

\* what one iteration of interpret's loop leaves in the interpreter
Keep(executed) ==
    /\ heap' = executed.s.heap
    /\ interpreter' = [interpreter EXCEPT !.environment = executed.s.environment]
    /\ stdout' = executed.s.stdout
    /\ events' = Append(executed.s.events,
                        [ev |-> "interpret", statement |-> next_stmt,
                         result |-> executed.r])

\* Interpreter::interpret, an iteration whose execute() returns Ok
ExecuteOk ==
    /\ pc = "interpret"
    /\ next_stmt <= Len(program)
    /\ \E executed \in {Executed} :
          /\ executed.r.tag = "Ok"
          /\ Keep(executed)
    /\ next_stmt' = next_stmt + 1
    /\ UNCHANGED <<program, pc, HAD_ERROR, HAD_RUNTIME_ERROR, stderr, clock, parser, vm>>

\* faulty variant of ExecuteErr: the loop goes on after the error
ExecuteErr_continues ==
    /\ pc = "interpret"
    /\ next_stmt <= Len(program)
    /\ \E executed \in {Executed} :
          /\ executed.r.tag # "Ok"
          /\ Keep(executed)
          /\ stderr' = Append(stderr, RuntimeErrorLine(executed.r))
    /\ HAD_RUNTIME_ERROR' = TRUE
    /\ next_stmt' = next_stmt + 1
    /\ UNCHANGED <<program, pc, HAD_ERROR, clock, parser, vm>>

\* Interpreter::interpret, an iteration whose execute() returns Err:
\* runtime_error(err); break
ExecuteErr ==
    /\ pc = "interpret"
    /\ next_stmt <= Len(program)
    /\ \E executed \in {Executed} :
          /\ executed.r.tag # "Ok"
          /\ Keep(executed)
          /\ stderr' = Append(stderr, RuntimeErrorLine(executed.r))
    /\ HAD_RUNTIME_ERROR' = TRUE
    /\ pc' = "done"
    /\ UNCHANGED <<program, next_stmt, HAD_ERROR, clock, parser, vm>>

\* Interpreter::interpret, the loop has run through the statements
InterpretEnd ==
    /\ pc = "interpret"
    /\ next_stmt > Len(program)
    /\ pc' = "done"
    /\ UNCHANGED <<program, next_stmt, heap, interpreter, HAD_ERROR,
                   HAD_RUNTIME_ERROR, stdout, stderr, events, clock, parser, vm>>

Init == TwInit /\ vm = "off"

Next == Resolve \/ ResolveError \/ ExecuteOk \/ ExecuteErr \/ InterpretEnd

Spec == Init /\ [][Next]_vars

-----------------------------------------------------------------------------
(* main.rs: run(source), on the tokens that the scanner hands to            *)
(* Parser::new.  The sources are every sequence of at most MaxSnippets of   *)
(* the snippets below, the k-th on line k; HAD_ERROR is what the scanner    *)
(* left in the flag.                                                        *)

MaxSnippets == 3

NumberToken(n, line) == Token_new("Number", ToString(n), Number(n), line)
StringToken(s, line) == Token_new("String", "\"" \o s \o "\"", String(s), line)

\* print 1;
SrcPrintOne(l) == <<Tok("Print", "print", l), NumberToken(1, l), Tok("SemiColon", ";", l)>>

\* print ;
SrcPrintNothing(l) == <<Tok("Print", "print", l), Tok("SemiColon", ";", l)>>

\* var a = 2;
SrcVarA(l) ==
    <<Tok("Var", "var", l), Id("a", l), Tok("Equal", "=", l), NumberToken(2, l),
      Tok("SemiColon", ";", l)>>

\* a = 3 print a;
SrcMissingSemi(l) ==
    <<Id("a", l), Tok("Equal", "=", l), NumberToken(3, l), Tok("Print", "print", l),
      Id("a", l), Tok("SemiColon", ";", l)>>

\* { print a;
SrcOpenBlock(l) ==
    <<Tok("LeftBrace", "{", l), Tok("Print", "print", l), Id("a", l),
      Tok("SemiColon", ";", l)>>

\* }
SrcCloseBrace(l) == <<Tok("RightBrace", "}", l)>>

\* if (a == 2) print "y"; else a = nil;
SrcIfElse(l) ==
    <<Tok("If", "if", l), Tok("LeftParen", "(", l), Id("a", l),
      Tok("EqualEqual", "==", l), NumberToken(2, l), Tok("RightParen", ")", l),
      Tok("Print", "print", l), StringToken("y", l), Tok("SemiColon", ";", l),
      Tok("Else", "else", l), Id("a", l), Tok("Equal", "=", l), Tok("Nil", "nil", l),
      Tok("SemiColon", ";", l)>>

\* for (; a; a = nil) print -a;
SrcFor(l) ==
    <<Tok("For", "for", l), Tok("LeftParen", "(", l), Tok("SemiColon", ";", l),
      Id("a", l), Tok("SemiColon", ";", l), Id("a", l), Tok("Equal", "=", l),
      Tok("Nil", "nil", l), Tok("RightParen", ")", l), Tok("Print", "print", l),
      Tok("Minus", "-", l), Id("a", l), Tok("SemiColon", ";", l)>>

\* while (1 = 2) print 1;
SrcWhileBad(l) ==
    <<Tok("While", "while", l), Tok("LeftParen", "(", l), NumberToken(1, l),
      Tok("Equal", "=", l), NumberToken(2, l), Tok("RightParen", ")", l),
      Tok("Print", "print", l), NumberToken(1, l), Tok("SemiColon", ";", l)>>

Snippets == {"PrintOne", "PrintNothing", "VarA", "MissingSemi", "OpenBlock",
             "CloseBrace", "IfElse", "For", "WhileBad"}

Snippet(name, l) ==
    CASE name = "PrintOne" -> SrcPrintOne(l)
      [] name = "PrintNothing" -> SrcPrintNothing(l)
      [] name = "VarA" -> SrcVarA(l)
      [] name = "MissingSemi" -> SrcMissingSemi(l)
      [] name = "OpenBlock" -> SrcOpenBlock(l)
      [] name = "CloseBrace" -> SrcCloseBrace(l)
      [] name = "IfElse" -> SrcIfElse(l)
      [] name = "For" -> SrcFor(l)
      [] name = "WhileBad" -> SrcWhileBad(l)

\* the tokens of the snippets `names` from the k-th on, and the EOF token
RECURSIVE SourceFrom(_, _)
SourceFrom(names, k) ==
    IF k > Len(names) THEN <<Tok("EOF", "", Len(names))>>
    ELSE Snippet(names[k], k) \o SourceFrom(names, k + 1)

Source(names) == SourceFrom(names, 1)

Sources == {Source(names) : names \in UNION {[1..n -> Snippets] : n \in 1..MaxSnippets}}

RunInit ==
    /\ program = <<>>
    /\ pc = "run"
    /\ next_stmt = 1
    /\ heap = HeapNew
    /\ interpreter = InterpreterNew
    /\ HAD_ERROR \in BOOLEAN
    /\ HAD_RUNTIME_ERROR = FALSE
    /\ stdout = <<>>
    /\ stderr = <<>>
    /\ events = <<>>
    /\ clock \in 1..MaxClock
    /\ parser \in {Parser_new(tokens) : tokens \in Sources}
    /\ vm = "off"

\* if had_error() { return Err(..) }
RunHadError ==
    /\ pc = "run"
    /\ HAD_ERROR
    /\ pc' = "done"
    /\ UNCHANGED <<program, next_stmt, heap, interpreter, HAD_ERROR,
                   HAD_RUNTIME_ERROR, stdout, stderr, events, clock, parser, vm>>

\* had_error() is false: run goes on to parser.parse()
RunParse ==
    /\ pc = "run"
    /\ ~HAD_ERROR
    /\ pc' = "parse"
    /\ UNCHANGED <<program, next_stmt, heap, interpreter, HAD_ERROR,
                   HAD_RUNTIME_ERROR, stdout, stderr, events, clock, parser, vm>>

ParserState ==
    [tokens |-> parser.tokens, current |-> parser.current, stdout |-> stdout,
     events |-> events]

Declared == Parser_declaration(ParserState)

\* what one iteration of parse's loop leaves behind
KeepParser(declared) ==
    /\ parser' = [parser EXCEPT !.current = declared.s.current]
    /\ stdout' = declared.s.stdout
    /\ events' = declared.s.events

\* Parser::parse, an iteration whose declaration() is Some: it is pushed
ParseDeclaration ==
    /\ pc = "parse"
    /\ ~Parser_is_at_end(parser)
    /\ \E declared \in {Declared} :
          /\ declared.r.tag = "Ok"
          /\ KeepParser(declared)
          /\ program' = Append(program, declared.r.value)
    /\ UNCHANGED <<pc, next_stmt, heap, interpreter, HAD_ERROR, HAD_RUNTIME_ERROR,
                   stderr, clock, vm>>

\* Parser::parse, an iteration whose declaration() is None
ParseDropped ==
    /\ pc = "parse"
    /\ ~Parser_is_at_end(parser)
    /\ \E declared \in {Declared} :
          /\ declared.r.tag = "None"
          /\ KeepParser(declared)
    /\ UNCHANGED <<program, pc, next_stmt, heap, interpreter, HAD_ERROR,
                   HAD_RUNTIME_ERROR, stderr, clock, vm>>

\* Parser::parse returns its statements and run hands them to
\* interpreter.interpret
ParseEnd ==
    /\ pc = "parse"
    /\ Parser_is_at_end(parser)
    /\ pc' = "interpret"
    /\ UNCHANGED <<program, next_stmt, heap, interpreter, HAD_ERROR,
                   HAD_RUNTIME_ERROR, stdout, stderr, events, clock, parser, vm>>

RunNext ==
    \/ RunHadError \/ RunParse \/ ParseDeclaration \/ ParseDropped \/ ParseEnd
    \/ ExecuteOk \/ ExecuteErr \/ InterpretEnd

SpecRun == RunInit /\ [][RunNext]_vars

-----------------------------------------------------------------------------
(* vm.rs: VM { chunk, code, ip, stack, instruction_line }.  The chunk is    *)
(* the compiler's, shared; `m` is the rest, with the history `trace` of the *)
(* instructions that run() has decoded: the opcode, the offset of its byte  *)
(* in the code, the stack before and after it, and how the iteration ended. *)

\* Value::Number, Bool, Nil and Obj(String) have the shape of the Objects

\* impl Display for Value
Value_Display(value) ==
    CASE value.t = "Bool" -> (IF value.b THEN "true" ELSE "false")
      [] value.t = "Nil" -> "nil"
      [] value.t = "Number" -> ToString(value.n)
      [] value.t = "String" -> value.s

VM_RuntimeError(line, message) ==
    [tag |-> "Err", kind |-> "RuntimeError", line |-> line, message |-> message]

\* the VM that interpret builds on the compiler's chunk
VM_new == [ip |-> 0, stack |-> <<>>, instruction_line |-> 0, trace |-> <<>>]

\* current_line().unwrap_or(0)
VM_current_line(chunk, m) ==
    IF m.ip < Len(chunk.lines) THEN chunk.lines[m.ip + 1] ELSE 0

\* a variant of read_byte that leaves ip where it is
VM_read_byte_stays(chunk, m) ==
    IF m.ip < Len(chunk.code)
    THEN Res(m, Ok(chunk.code[m.ip + 1]))
    ELSE Res(m, VM_RuntimeError(VM_current_line(chunk, m), "End of Stream"))

VM_read_byte(chunk, m) ==
    IF m.ip < Len(chunk.code)
    THEN Res([m EXCEPT !.ip = @ + 1], Ok(chunk.code[m.ip + 1]))
    ELSE Res(m, VM_RuntimeError(VM_current_line(chunk, m), "End of Stream"))

VM_read_constant(chunk, m) ==
    Try(VM_read_byte(chunk, m), LAMBDA position :
        IF position.r.value < Len(chunk.constants)
        THEN Res(position.s, Ok(chunk.constants[position.r.value + 1]))
        ELSE Res(position.s, VM_RuntimeError(VM_current_line(chunk, position.s),
                                             "Failed to get constant")))

VM_pop(m) ==
    IF m.stack = <<>>
    THEN Res(m, VM_RuntimeError(m.instruction_line, "No value on stack"))
    ELSE Res([m EXCEPT !.stack = SubSeq(@, 1, Len(@) - 1)], Ok(m.stack[Len(m.stack)]))

\* stack.push(value)
VM_push(m, value) == [m EXCEPT !.stack = Append(@, value)]

\* a variant of is_falsey for which the number 0 is false as well
VM_is_falsey_zero(value) ==
    CASE value.t = "Bool" -> ~value.b
      [] value.t = "Nil" -> TRUE
      [] value.t = "Number" -> value.n = 0
      [] OTHER -> FALSE

VM_is_falsey(value) ==
    CASE value.t = "Bool" -> ~value.b
      [] value.t = "Nil" -> TRUE
      [] OTHER -> FALSE

VM_values_equal(a, b) == a = b

\* the iteration of run's loop is over and the loop goes on
Continue == Ok("continue")

\* OpReturn has printed the value and run returns Ok(())
Returned(printed) == [tag |-> "Ok", value |-> "return", printed |-> printed]

BinaryOps == {"OpAdd", "OpSubtract", "OpDivide", "OpMultiply", "OpGreater", "OpLess"}

\* the arm (Value::Number(a), Value::Number(b)) of a binary instruction; the
\* quotient of f64 is the integer quotient where that is exact
BinaryNumbers(opcode, a, b) ==
    CASE opcode = "OpAdd" -> Number(a + b)
      [] opcode = "OpSubtract" -> Number(a - b)
      [] opcode = "OpDivide" -> Number(IF b = 0 THEN 0 ELSE a \div b)
      [] opcode = "OpMultiply" -> Number(a * b)
      [] opcode = "OpGreater" -> Bool(a > b)
      [] opcode = "OpLess" -> Bool(a < b)

\* the message of the other arm
BinaryMessage(opcode) ==
    CASE opcode = "OpAdd" -> "Cannot add two non numbers"
      [] opcode \in {"OpGreater", "OpLess"} -> "Cannot compare two non numbers"
      [] OTHER -> "Cannot subtract two non numbers"

VM_binary(m, opcode) ==
    Try(VM_pop(m), LAMBDA b :
    Try(VM_pop(b.s), LAMBDA a :
        IF a.r.value.t = "Number" /\ b.r.value.t = "Number"
        THEN Res(VM_push(a.s, BinaryNumbers(opcode, a.r.value.n, b.r.value.n)), Continue)
        ELSE Res(a.s, VM_RuntimeError(m.instruction_line, BinaryMessage(opcode)))))

\* the match of run on the decoded instruction
VM_dispatch(chunk, m, opcode) ==
    CASE opcode = "OpReturn" ->
           Try(VM_pop(m), LAMBDA value :
               Res(value.s, Returned(Value_Display(value.r.value))))
      [] opcode = "OpNegate" ->
           Try(VM_pop(m), LAMBDA value :
               IF value.r.value.t = "Number"
               THEN Res(VM_push(value.s, Number(0 - value.r.value.n)), Continue)
               ELSE Res(VM_push(value.s, value.r.value),
                        VM_RuntimeError(m.instruction_line, "Cannot negate non number")))
      [] opcode \in BinaryOps -> VM_binary(m, opcode)
      [] opcode = "OpConstant" ->
           Try(VM_read_constant(chunk, m), LAMBDA constant :
               Res(VM_push(constant.s, constant.r.value), Continue))
      [] opcode = "OpNil" -> Res(VM_push(m, Nil), Continue)
      [] opcode = "OpTrue" -> Res(VM_push(m, Bool(TRUE)), Continue)
      [] opcode = "OpFalse" -> Res(VM_push(m, Bool(FALSE)), Continue)
      [] opcode = "OpNot" ->
           Try(VM_pop(m), LAMBDA val :
               Res(VM_push(val.s, Bool(VM_is_falsey(val.r.value))), Continue))
      [] opcode = "OpEqual" ->
           Try(VM_pop(m), LAMBDA a :
           Try(VM_pop(a.s), LAMBDA b :
               Res(VM_push(b.s, Bool(VM_values_equal(a.r.value, b.r.value))), Continue)))
      [] OTHER -> Res(m, Continue)

\* one iteration of the loop of run
VM_run_step(chunk, m) ==
    Then([m EXCEPT !.instruction_line = VM_current_line(chunk, m)], LAMBDA lined :
    Try(VM_read_byte(chunk, lined), LAMBDA instruction :
    Then(VM_dispatch(chunk, instruction.s, OpCode_from_u8(instruction.r.value)),
         LAMBDA done :
             Res([done.s EXCEPT !.trace =
                      Append(@, [op |-> OpCode_from_u8(instruction.r.value),
                                 ip |-> m.ip,
                                 before |-> m.stack, after |-> done.s.stack,
                                 result |-> done.r])],
                 done.r))))

-----------------------------------------------------------------------------
(* VM::interpret(source): Compiler::new, compile() one declaration per      *)
(* step, then run() one instruction per step.  The sources are every        *)
(* sequence of at most MaxVmSnippets of the snippets below, one per line,   *)
(* and the sources of U8Max + 1 and of U8Max + 2 constants.                 *)

MaxVmSnippets == 2

VmSnippets ==
    {<<"1", ";">>,
     <<"p", "r", "i", "n", "t", " ", "1", "+", "2", ";">>,
     <<"!", "n", "i", "l", "=", "=", "t", "r", "u", "e", ";">>,
     <<"-", "n", "i", "l", ";">>,
     <<"p", "r", "i", "n", "t", " ", ";">>,
     <<"1", " ", "@", ";">>,
     <<"\"", "a", "\"", ";">>,
     <<"v", "a", "r", " ", "a", "=", "1", ";">>,
     <<"1", "=", "2", ";">>,
     <<"(", "1", "<", "=", "2", ";">>}

RECURSIVE Lines(_, _)
Lines(snippets, i) ==
    IF i > Len(snippets) THEN <<>>
    ELSE snippets[i] \o <<"\n">> \o Lines(snippets, i + 1)

\* the text, n times over
Repeat(text, n) == [i \in 1..(n * Len(text)) |-> text[((i - 1) % Len(text)) + 1]]

VmSources ==
    {Lines(snippets, 1) :
         snippets \in UNION {[1..n -> VmSnippets] : n \in 0..MaxVmSnippets}}
    \cup {Repeat(<<"0", ";">>, n) : n \in {U8Max + 1, U8Max + 2}}

\* the state of VM::interpret, at its start
VmNew(source, had_error, panic_mode) ==
    [pc |-> "interpret",
     compiler |-> Compiler_new(source, had_error, panic_mode),
     res |-> None,
     machine |-> None,
     result |-> None]

\* the tree-walker at rest, nothing to run
TwIdle ==
    /\ program = <<>>
    /\ pc = "done"
    /\ next_stmt = 1
    /\ heap = HeapNew
    /\ interpreter = InterpreterNew
    /\ HAD_ERROR = FALSE
    /\ HAD_RUNTIME_ERROR = FALSE
    /\ stdout = <<>>
    /\ stderr = <<>>
    /\ events = <<>>
    /\ clock = 1
    /\ parser = [tokens |-> <<>>, current |-> 0]

VmInit ==
    /\ TwIdle
    /\ vm \in {VmNew(source, had_error, panic_mode) :
                   source \in VmSources, had_error \in BOOLEAN, panic_mode \in BOOLEAN}

\* one iteration of compile's loop, and end() when the loop is over: the
\* value says whether it was
Compiler_compile_loop(c) ==
    Try(Compiler_match_token(c, "EOF"), LAMBDA eof :
        IF eof.r.value
        THEN Try(Compiler_end(eof.s), LAMBDA ended : Res(ended.s, Ok(TRUE)))
        ELSE Try(Compiler_declaration(eof.s), LAMBDA declared :
                 Res(declared.s, Ok(FALSE))))

\* the step of compile() that the compiler is at
Compiled ==
    IF vm.pc = "interpret" THEN Compiler_compile_begin(vm.compiler)
    ELSE Compiler_compile_loop(vm.compiler)

\* what the step has printed on stderr
KeepCompiler(compiled) ==
    stderr' = stderr \o SubSeq(compiled.s.stderr, Len(vm.compiler.stderr) + 1,
                               Len(compiled.s.stderr))

\* Compiler::new(source) and compile() up to its loop
CompileBegin ==
    /\ vm.pc = "interpret"
    /\ \E compiled \in {Compiled} :
          /\ compiled.r.tag = "Ok"
          /\ vm' = [vm EXCEPT !.pc = "compile", !.compiler = compiled.s]
          /\ KeepCompiler(compiled)
    /\ UNCHANGED <<program, pc, next_stmt, heap, interpreter, HAD_ERROR,
                   HAD_RUNTIME_ERROR, stdout, events, clock, parser>>

\* compile(), an iteration of its loop: a declaration
CompileDeclaration ==
    /\ vm.pc = "compile"
    /\ \E compiled \in {Compiled} :
          /\ compiled.r = Ok(FALSE)
          /\ vm' = [vm EXCEPT !.compiler = compiled.s]
          /\ KeepCompiler(compiled)
    /\ UNCHANGED <<program, pc, next_stmt, heap, interpreter, HAD_ERROR,
                   HAD_RUNTIME_ERROR, stdout, events, clock, parser>>

\* compile() returns an Err, of the scanner or its own: `compile()?` makes
\* VM::interpret return it
CompileErr ==
    /\ vm.pc \in {"interpret", "compile"}
    /\ \E compiled \in {Compiled} :
          /\ compiled.r.tag = "Err"
          /\ vm' = [vm EXCEPT !.pc = "done", !.compiler = compiled.s,
                              !.result = compiled.r]
          /\ KeepCompiler(compiled)
    /\ UNCHANGED <<program, pc, next_stmt, heap, interpreter, HAD_ERROR,
                   HAD_RUNTIME_ERROR, stdout, events, clock, parser>>

\* compile() returns Ok(true): VM::interpret builds the VM and calls run()
CompileOk ==
    /\ vm.pc = "compile"
    /\ \E compiled \in {Compiled} :
          /\ compiled.r = Ok(TRUE)
          /\ Compiler_compile_result(compiled.s)
          /\ vm' = [vm EXCEPT !.pc = "run", !.compiler = compiled.s,
                              !.res = Ok(TRUE), !.machine = VM_new]
          /\ KeepCompiler(compiled)
    /\ UNCHANGED <<program, pc, next_stmt, heap, interpreter, HAD_ERROR,
                   HAD_RUNTIME_ERROR, stdout, events, clock, parser>>

\* compile() returns Ok(false): VM::interpret builds the VM and returns Ok(())
CompileFailed ==
    /\ vm.pc = "compile"
    /\ \E compiled \in {Compiled} :
          /\ compiled.r = Ok(TRUE)
          /\ ~Compiler_compile_result(compiled.s)
          /\ vm' = [vm EXCEPT !.pc = "done", !.compiler = compiled.s,
                              !.res = Ok(FALSE), !.machine = VM_new,
                              !.result = Ok(Unit)]
          /\ KeepCompiler(compiled)
    /\ UNCHANGED <<program, pc, next_stmt, heap, interpreter, HAD_ERROR,
                   HAD_RUNTIME_ERROR, stdout, events, clock, parser>>

\* the iteration of run's loop that the VM is at
Ran == VM_run_step(vm.compiler.chunk, vm.machine)

\* run(), an iteration of its loop after which the loop goes on
VmStep ==
    /\ vm.pc = "run"
    /\ \E ran \in {Ran} :
          /\ ran.r = Continue
          /\ vm' = [vm EXCEPT !.machine = ran.s]
    /\ UNCHANGED twVars

\* run(), the iteration of OpReturn: the value is printed, run returns Ok(())
VmReturn ==
    /\ vm.pc = "run"
    /\ \E ran \in {Ran} :
          /\ ran.r.tag = "Ok"
          /\ ran.r.value = "return"
          /\ vm' = [vm EXCEPT !.pc = "done", !.machine = ran.s, !.result = Ok(Unit)]
          /\ stdout' = Append(stdout, ran.r.printed)
    /\ UNCHANGED <<program, pc, next_stmt, heap, interpreter, HAD_ERROR,
                   HAD_RUNTIME_ERROR, stderr, events, clock, parser>>

\* run(), an iteration that returns an Err: `vm.run()?` makes VM::interpret
\* return it
VmErr ==
    /\ vm.pc = "run"
    /\ \E ran \in {Ran} :
          /\ ran.r.tag = "Err"
          /\ vm' = [vm EXCEPT !.pc = "done", !.machine = ran.s, !.result = ran.r]
    /\ UNCHANGED twVars

VmNext ==
    \/ CompileBegin \/ CompileDeclaration \/ CompileErr \/ CompileOk \/ CompileFailed
    \/ VmStep \/ VmReturn \/ VmErr

SpecVM == VmInit /\ [][VmNext]_vars

-----------------------------------------------------------------------------
(* `!!V;` in both interpreters: the tree-walker interprets the statement    *)
(* and VM::interpret compiles and runs its text, for the literals V.        *)

MaxTruthyNumber == 2

Bang == Tok("Bang", "!", 1)

\* the literals, as the tree-walker's parser hands them over and as text
TruthyLiterals ==
    {[object |-> Nil, text |-> <<"n", "i", "l">>],
     [object |-> Bool(TRUE), text |-> <<"t", "r", "u", "e">>],
     [object |-> Bool(FALSE), text |-> <<"f", "a", "l", "s", "e">>],
     [object |-> String(""), text |-> <<"\"", "\"">>],
     [object |-> String("a"), text |-> <<"\"", "a", "\"">>]}
    \cup {[object |-> Number(n), text |-> <<ToString(n)>>] : n \in 0..MaxTruthyNumber}

NotNot(expr) == ExprUnary(Bang, ExprUnary(Bang, expr))

TruthyInit ==
    /\ \E literal \in TruthyLiterals :
          /\ program = <<StmtExpression(NotNot(Lit(literal.object)))>>
          /\ vm = VmNew(<<"!", "!">> \o literal.text \o <<";">>, FALSE, FALSE)
    /\ pc = "interpret"
    /\ next_stmt = 1
    /\ heap = HeapNew
    /\ interpreter = InterpreterNew
    /\ HAD_ERROR = FALSE
    /\ HAD_RUNTIME_ERROR = FALSE
    /\ stdout = <<>>
    /\ stderr = <<>>
    /\ events = <<>>
    /\ clock = 1
    /\ parser = [tokens |-> <<>>, current |-> 0]

TruthyNext ==
    \/ ExecuteOk \/ InterpretEnd
    \/ CompileBegin \/ CompileDeclaration \/ CompileOk \/ VmStep \/ VmReturn

SpecTruthy == TruthyInit /\ [][TruthyNext]_vars

-----------------------------------------------------------------------------
(* `-V;` and `0-V;` in both interpreters: the tree-walker interprets the    *)
(* statement and VM::interpret compiles and runs its text, for the          *)
(* literals V.                                                               *)

Minus == Tok("Minus", "-", 1)

\* the two statements, as the tree-walker's parser hands them over and as text
MinusForms(literal) ==
    {[statement |-> StmtExpression(ExprUnary(Minus, Lit(literal.object))),
      text |-> <<"-">> \o literal.text \o <<";">>],
     [statement |-> StmtExpression(ExprBinary(Lit(Number(0)), Minus,
                                              Lit(literal.object))),
      text |-> <<"0", "-">> \o literal.text \o <<";">>]}

NegateInit ==
    /\ \E literal \in TruthyLiterals : \E form \in MinusForms(literal) :
          /\ program = <<form.statement>>
          /\ vm = VmNew(form.text, FALSE, FALSE)
    /\ pc = "interpret"
    /\ next_stmt = 1
    /\ heap = HeapNew
    /\ interpreter = InterpreterNew
    /\ HAD_ERROR = FALSE
    /\ HAD_RUNTIME_ERROR = FALSE
    /\ stdout = <<>>
    /\ stderr = <<>>
    /\ events = <<>>
    /\ clock = 1
    /\ parser = [tokens |-> <<>>, current |-> 0]

NegateNext ==
    \/ ExecuteOk \/ ExecuteErr \/ InterpretEnd
    \/ CompileBegin \/ CompileDeclaration \/ CompileOk \/ VmStep \/ VmReturn \/ VmErr

SpecNegate == NegateInit /\ [][NegateNext]_vars

-----------------------------------------------------------------------------
(* `L+R;` in the VM: VM::interpret compiles and runs the text, for every    *)
(* pair of the literals.                                                     *)

AddInit ==
    /\ TwIdle
    /\ \E left \in TruthyLiterals : \E right \in TruthyLiterals :
          vm = VmNew(left.text \o <<"+">> \o right.text \o <<";">>, FALSE, FALSE)

AddNext ==
    \/ CompileBegin \/ CompileDeclaration \/ CompileOk \/ VmStep \/ VmReturn \/ VmErr

SpecAdd == AddInit /\ [][AddNext]_vars

-----------------------------------------------------------------------------
(* `T=E;` and `E;` in the VM: VM::interpret compiles and runs the text,     *)
(* for the left sides T and the right sides E below.                         *)

\* the left sides, and whether each is a bare identifier
AssignTargets ==
    {[text |-> <<"a">>, identifier |-> TRUE],
     [text |-> <<"a", "+", "b">>, identifier |-> FALSE],
     [text |-> <<"(", "a", ")">>, identifier |-> FALSE],
     [text |-> <<"1">>, identifier |-> FALSE],
     [text |-> <<"-", "a">>, identifier |-> FALSE],
     [text |-> <<"!", "a">>, identifier |-> FALSE],
     [text |-> <<"\"", "s", "\"">>, identifier |-> FALSE]}

AssignValues ==
    {<<"1">>, <<"b">>, <<"1", "+", "2">>, <<"-", "1">>, <<"b", "=", "2">>,
     <<"(", "b", ")">>, <<"n", "i", "l">>}

AssignSource(target, value) == target.text \o <<"=">> \o value \o <<";">>

AssignSources ==
    {AssignSource(target, value) : target \in AssignTargets, value \in AssignValues}
    \cup {value \o <<";">> : value \in AssignValues}

AssignInit ==
    /\ TwIdle
    /\ \E source \in AssignSources : vm = VmNew(source, FALSE, FALSE)

AssignNext ==
    \/ CompileBegin \/ CompileDeclaration \/ CompileOk \/ CompileFailed
    \/ VmStep \/ VmReturn \/ VmErr

SpecAssign == AssignInit /\ [][AssignNext]_vars

\* compile's loop and end(), run to the end
RECURSIVE Compiler_compile_rest(_)
Compiler_compile_rest(c) ==
    Try(Compiler_compile_loop(c), LAMBDA step :
        IF step.r.value THEN Res(step.s, Ok(Compiler_compile_result(step.s)))
        ELSE Compiler_compile_rest(step.s))

\* Compiler::new(source).compile()
Compiler_compile(source) ==
    Try(Compiler_compile_begin(Compiler_new(source, FALSE, FALSE)), LAMBDA begun :
        Compiler_compile_rest(begun.s))

-----------------------------------------------------------------------------
(* main.rs run_prompt: run(line) for one line after the other, in one       *)
(* process: the flags of error.rs and the INTERPRETER are those of the      *)
(* lines before.  Scanner::scan_tokens is not in src: it hands over the     *)
(* tokens of the line and may report through error(line, message).          *)

MaxLines == 2

\* the lines that are typed: one snippet each
PromptLines == {Source(<<name>>) : name \in Snippets}

\* what the scanner reports for a line
ScanReports == {<<>>, <<"Unexpected character.">>}

\* error(line, message) for each of the messages: the lines on stderr
ErrorLines(line, messages) ==
    [i \in DOMAIN messages |-> ReportLine(line, messages[i])]

PromptInit ==
    /\ program = <<>>
    /\ pc = "prompt"
    /\ next_stmt = 1
    /\ heap = HeapNew
    /\ interpreter = InterpreterNew
    /\ HAD_ERROR = FALSE
    /\ HAD_RUNTIME_ERROR = FALSE
    /\ stdout = <<>>
    /\ stderr = <<>>
    /\ events = <<>>
    /\ clock = 1
    /\ parser = Parser_new(<<>>)
    /\ vm = "off"

\* the lines that run_prompt has read
LinesRead == Cardinality({i \in DOMAIN events : events[i].ev = "prompt"})

\* a variant of PromptLine that clears HAD_ERROR before each line
PromptLine_resets ==
    /\ pc \in {"prompt", "done"}
    /\ LinesRead < MaxLines
    /\ \E tokens \in PromptLines : \E reports \in ScanReports :
          /\ parser' = Parser_new(tokens)
          /\ stderr' = stderr \o ErrorLines(1, reports)
          /\ HAD_ERROR' = (reports # <<>>)
          /\ events' = Append(events, [ev |-> "prompt", reports |-> reports])
    /\ program' = <<>>
    /\ next_stmt' = 1
    /\ pc' = "run"
    /\ UNCHANGED <<heap, interpreter, HAD_RUNTIME_ERROR, stdout, clock, vm>>

\* run_prompt, an iteration that reads a line and calls run(line), up to
\* Parser::new: report() stores true in HAD_ERROR, nothing stores false
PromptLine ==
    /\ pc \in {"prompt", "done"}
    /\ LinesRead < MaxLines
    /\ \E tokens \in PromptLines : \E reports \in ScanReports :
          /\ parser' = Parser_new(tokens)
          /\ stderr' = stderr \o ErrorLines(1, reports)
          /\ HAD_ERROR' = (IF reports # <<>> THEN TRUE ELSE HAD_ERROR)
          /\ events' = Append(events, [ev |-> "prompt", reports |-> reports])
    /\ program' = <<>>
    /\ next_stmt' = 1
    /\ pc' = "run"
    /\ UNCHANGED <<heap, interpreter, HAD_RUNTIME_ERROR, stdout, clock, vm>>

\* if had_error() { return Err(..) }, and run_prompt prints the Err
PromptHadError ==
    /\ pc = "run"
    /\ HAD_ERROR
    /\ pc' = "done"
    /\ stderr' = Append(stderr, "Error an error occurred when formatting an argument")
    /\ UNCHANGED <<program, next_stmt, heap, interpreter, HAD_ERROR,
                   HAD_RUNTIME_ERROR, stdout, events, clock, parser, vm>>

\* run_prompt, the iteration that reads no line, or "exit" or "quit": break
PromptEnd ==
    /\ pc \in {"prompt", "done"}
    /\ pc' = "exit"
    /\ UNCHANGED <<program, next_stmt, heap, interpreter, HAD_ERROR,
                   HAD_RUNTIME_ERROR, stdout, stderr, events, clock, parser, vm>>

PromptNext ==
    \/ PromptLine \/ PromptHadError \/ PromptEnd
    \/ RunParse \/ ParseDeclaration \/ ParseDropped \/ ParseEnd
    \/ ExecuteOk \/ ExecuteErr \/ InterpretEnd

SpecPrompt == PromptInit /\ [][PromptNext]_vars

-----------------------------------------------------------------------------
(* Scanner::new(source) and scan_token() until it returns the EOF token or  *)
(* an error, for every source of at most MaxSourceLen of the characters     *)
(* below.  The tokens returned are kept in `tokens`.                         *)

MaxSourceLen == 4

ScanChars == {"a", "1", ".", "/", " ", "\n", "\"", "="}

ScanSources == UNION {[1..n -> ScanChars] : n \in 0..MaxSourceLen}

ScanNew(source) ==
    [pc |-> "scan", source |-> source, scanner |-> Scanner_new, tokens |-> <<>>,
     result |-> None]

ScanInit ==
    /\ TwIdle
    /\ vm \in {ScanNew(source) : source \in ScanSources}

Scanned == Scanner_scan_token(vm.source, vm.scanner)

\* scan_token returns a token that is not EOF
ScanToken ==
    /\ vm.pc = "scan"
    /\ \E scanned \in {Scanned} :
          /\ scanned.r.tag = "Ok"
          /\ scanned.r.value.token_type # "EOF"
          /\ vm' = [vm EXCEPT !.scanner = scanned.s,
                              !.tokens = Append(@, scanned.r.value)]
    /\ UNCHANGED twVars

\* scan_token returns the EOF token
ScanEof ==
    /\ vm.pc = "scan"
    /\ \E scanned \in {Scanned} :
          /\ scanned.r.tag = "Ok"
          /\ scanned.r.value.token_type = "EOF"
          /\ vm' = [vm EXCEPT !.pc = "done", !.scanner = scanned.s,
                              !.tokens = Append(@, scanned.r.value),
                              !.result = Ok(Unit)]
    /\ UNCHANGED twVars

\* scan_token returns a TokenError
ScanErr ==
    /\ vm.pc = "scan"
    /\ \E scanned \in {Scanned} :
          /\ scanned.r.tag = "Err"
          /\ vm' = [vm EXCEPT !.pc = "done", !.scanner = scanned.s,
                              !.result = scanned.r]
    /\ UNCHANGED twVars

ScanNext == ScanToken \/ ScanEof \/ ScanErr

SpecScan == ScanInit /\ [][ScanNext]_vars

-----------------------------------------------------------------------------
(* Programs of nested scopes for the resolver and the interpreter: every    *)
(* sequence of at most MaxScopeProgLen of the statements below.  Each       *)
(* occurrence of a variable is on a line of its own, except in ShadowLine.  *)

MaxScopeProgLen == 2

\* { var a = "outer";
\*   { print a;
\*     var a = "inner";
\*     print a; } }
Shadow(l1, l2, l3, l4) ==
    StmtBlock(<<StmtVar(Id("a", l1), Lit(String("outer"))),
                StmtBlock(<<StmtPrint(Var("a", l2)),
                            StmtVar(Id("a", l3), Lit(String("inner"))),
                            StmtPrint(Var("a", l4))>>)>>)

ShadowBlock == Shadow(21, 22, 23, 24)

\* { var a = "outer"; { print a; var a = "inner"; print a; } }
ShadowLine == Shadow(25, 25, 25, 25)

\* { var b = 1;
\*   { b = 2;
\*     print b; }
\*   print b; }
AssignBlock ==
    StmtBlock(<<StmtVar(Id("b", 26), Lit(Number(1))),
                StmtBlock(<<StmtExpression(ExprAssign(Id("b", 27), Lit(Number(2)))),
                            StmtPrint(Var("b", 28))>>),
                StmtPrint(Var("b", 29))>>)

\* fun f(x) { print x;
\*            { print x; } }
DeclareF ==
    StmtFunction(Id("f", 30), <<Id("x", 30)>>,
                 <<StmtPrint(Var("x", 30)),
                   StmtBlock(<<StmtPrint(Var("x", 31))>>)>>)

\* f(1);
CallF == StmtExpression(CallOf("f", <<Lit(Number(1))>>, 32))

\* fun g() { { return 1; } }
DeclareG ==
    StmtFunction(Id("g", 33), <<>>,
                 <<StmtBlock(<<StmtReturn(Tok("Return", "return", 33),
                                          Lit(Number(1)))>>)>>)

\* print g();
CallG == StmtPrint(CallOf("g", <<>>, 34))

\* { { g(); }
\*   { print "a" - 1; } }
BlockExits ==
    StmtBlock(<<StmtBlock(<<StmtExpression(CallOf("g", <<>>, 35))>>),
                StmtBlock(<<StmtPrint(ExprBinary(Lit(String("a")),
                                                 Tok("Minus", "-", 36),
                                                 Lit(Number(1))))>>)>>)

\* { var a = a; }
OwnInitializer == StmtBlock(<<StmtVar(Id("a", 37), Var("a", 37))>>)

\* print a;
PrintA == StmtPrint(Var("a", 38))

ScopePool == {DeclareGlobalA, ShadowBlock, ShadowLine, AssignBlock, DeclareF, CallF,
              DeclareG, CallG, BlockExits, OwnInitializer, PrintA}

ScopePrograms == UNION {[1..n -> ScopePool] : n \in 1..MaxScopeProgLen}

ScopesInit ==
    /\ program \in ScopePrograms
    /\ pc = "resolve"
    /\ next_stmt = 1
    /\ heap = HeapNew
    /\ interpreter = InterpreterNew
    /\ HAD_ERROR = FALSE
    /\ HAD_RUNTIME_ERROR = FALSE
    /\ stdout = <<>>
    /\ stderr = <<>>
    /\ events = <<>>
    /\ clock = 1
    /\ parser = [tokens |-> <<>>, current |-> 0]
    /\ vm = "off"

SpecScopes == ScopesInit /\ [][Next]_vars

-----------------------------------------------------------------------------
(* Chunk::new() and every sequence of at most MaxChunkCalls calls of write  *)
(* and add_constant on it, with the bytes, lines and values below.  The     *)
(* calls are kept in `calls`, with the chunk before and after each.         *)

MaxChunkCalls == 4

ChunkBytes == {0, 1, U8Max}
ChunkLines == {1, 2}
ChunkValues == {Number(1), String("a")}

ChunkInit ==
    /\ TwIdle
    /\ vm = [pc |-> "chunk", chunk |-> Chunk_new, calls |-> <<>>]

\* chunk.write(byte, line)
ChunkWrite ==
    /\ vm.pc = "chunk"
    /\ Len(vm.calls) < MaxChunkCalls
    /\ \E byte \in ChunkBytes : \E line \in ChunkLines :
          \E written \in {Chunk_write(vm.chunk, byte, line)} :
              vm' = [vm EXCEPT !.chunk = written,
                               !.calls = Append(@, [fn |-> "write", byte |-> byte,
                                                    line |-> line,
                                                    before |-> vm.chunk,
                                                    after |-> written])]
    /\ UNCHANGED twVars

\* chunk.add_constant(value), which returns constants.len() - 1
ChunkAddConstant ==
    /\ vm.pc = "chunk"
    /\ Len(vm.calls) < MaxChunkCalls
    /\ \E value \in ChunkValues :
          \E added \in {Chunk_add_constant(vm.chunk, value)} :
              vm' = [vm EXCEPT !.chunk = added,
                               !.calls = Append(@, [fn |-> "add_constant",
                                                    value |-> value,
                                                    returned |-> Len(added.constants) - 1,
                                                    before |-> vm.chunk,
                                                    after |-> added])]
    /\ UNCHANGED twVars

ChunkNext == ChunkWrite \/ ChunkAddConstant

SpecChunk == ChunkInit /\ [][ChunkNext]_vars

-----------------------------------------------------------------------------
(* Global variables in the VM: VM::interpret compiles and runs every        *)
(* sequence of at most MaxGlobalSnippets of the statements below, one per   *)
(* line.                                                                     *)

MaxGlobalSnippets == 2

GlobalSnippets ==
    {<<"v", "a", "r", " ", "a", "=", "1", ";">>,
     <<"v", "a", "r", " ", "a", ";">>,
     <<"p", "r", "i", "n", "t", " ", "a", ";">>,
     <<"a", "=", "2", ";">>,
     <<"p", "r", "i", "n", "t", " ", "1", ";">>,
     <<"1", ";">>,
     <<"a", ";">>}

GlobalSources ==
    {Lines(snippets, 1) :
         snippets \in UNION {[1..n -> GlobalSnippets] : n \in 0..MaxGlobalSnippets}}

GlobalsInit ==
    /\ TwIdle
    /\ \E source \in GlobalSources : vm = VmNew(source, FALSE, FALSE)

GlobalsNext ==
    \/ CompileBegin \/ CompileDeclaration \/ CompileOk \/ VmStep \/ VmReturn \/ VmErr

SpecGlobals == GlobalsInit /\ [][GlobalsNext]_vars

-----------------------------------------------------------------------------
(* VM::run on any chunk: the VM that VM::interpret builds, on every chunk   *)
(* whose code is at most MaxCodeLen of the bytes below, all of line 1, with *)
(* no constant or one.                                                       *)

MaxCodeLen == 4

CodeBytes ==
    {Op("OpConstant"), Op("OpNil"), Op("OpGetGlobal"), Op("OpAdd"), Op("OpNegate"),
     Op("OpReturn"), Len(OpCodes)}

RunChunks ==
    {[lines |-> [i \in DOMAIN code |-> 1], code |-> code, constants |-> constants] :
         code \in UNION {[1..n -> CodeBytes] : n \in 0..MaxCodeLen},
         constants \in {<<>>, <<Number(1)>>}}

ChunkRunInit ==
    /\ TwIdle
    /\ \E chunk \in RunChunks :
          vm = [VmNew(<<>>, FALSE, FALSE) EXCEPT !.pc = "run",
                                                 !.compiler.chunk = chunk,
                                                 !.res = Ok(TRUE),
                                                 !.machine = VM_new]

ChunkRunNext == VmStep \/ VmReturn \/ VmErr

SpecRunChunk == ChunkRunInit /\ [][ChunkRunNext]_vars

\* run() is one loop of one thread, never preempted for good: an iteration
\* that can be taken is taken
SpecRunChunkFair == SpecRunChunk /\ WF_vars(ChunkRunNext)

-----------------------------------------------------------------------------
(* One expression statement in both front ends: Parser::parse on the tokens *)
(* and Compiler::compile on their text, the lexemes with a blank between    *)
(* them and `;` at the end.  The expressions are every sequence of at most  *)
(* MaxExprTokens of the tokens of ExprAlphabet, and those of ExprExamples.  *)

MaxExprTokens == 3

\* a token of the tree-walker's scanner and its text
Lexeme(token, text) == [token |-> token, text |-> text]

LexNumber == Lexeme(NumberToken(1, 1), <<"1">>)
LexA == Lexeme(Id("a", 1), <<"a">>)
LexString == Lexeme(StringToken("s", 1), <<"\"", "s", "\"">>)
LexMinus == Lexeme(Tok("Minus", "-", 1), <<"-">>)
LexPlus == Lexeme(Tok("Plus", "+", 1), <<"+">>)
LexStar == Lexeme(Tok("Star", "*", 1), <<"*">>)
LexSlash == Lexeme(Tok("Slash", "/", 1), <<"/">>)
LexBang == Lexeme(Tok("Bang", "!", 1), <<"!">>)
LexBangEqual == Lexeme(Tok("BangEqual", "!=", 1), <<"!", "=">>)
LexEqualEqual == Lexeme(Tok("EqualEqual", "==", 1), <<"=", "=">>)
LexLess == Lexeme(Tok("Less", "<", 1), <<"<">>)
LexLessEqual == Lexeme(Tok("LessEqual", "<=", 1), <<"<", "=">>)
LexGreater == Lexeme(Tok("Greater", ">", 1), <<">">>)
LexGreaterEqual == Lexeme(Tok("GreaterEqual", ">=", 1), <<">", "=">>)
LexEqual == Lexeme(Tok("Equal", "=", 1), <<"=">>)
LexAnd == Lexeme(Tok("And", "and", 1), <<"a", "n", "d">>)
LexOr == Lexeme(Tok("Or", "or", 1), <<"o", "r">>)
LexLeftParen == Lexeme(Tok("LeftParen", "(", 1), <<"(">>)
LexRightParen == Lexeme(Tok("RightParen", ")", 1), <<")">>)
LexNil == Lexeme(Tok("Nil", "nil", 1), <<"n", "i", "l">>)
LexTrue == Lexeme(Tok("True", "true", 1), <<"t", "r", "u", "e">>)
LexFalse == Lexeme(Tok("False", "false", 1), <<"f", "a", "l", "s", "e">>)
LexSemiColon == Lexeme(Tok("SemiColon", ";", 1), <<";">>)

ExprAlphabet ==
    {LexNumber, LexA, LexMinus, LexStar, LexLessEqual, LexBangEqual, LexBang,
     LexEqual, LexAnd}

ExprExamples ==
    {<<LexNumber, LexMinus, LexNumber, LexMinus, LexNumber>>,
     <<LexNumber, LexMinus, LexNumber, LexStar, LexNumber>>,
     <<LexNumber, LexSlash, LexNumber, LexPlus, LexNumber>>,
     <<LexNumber, LexLess, LexNumber, LexEqualEqual, LexNumber>>,
     <<LexNumber, LexBangEqual, LexNumber, LexGreaterEqual, LexNumber>>,
     <<LexNumber, LexGreater, LexNumber, LexPlus, LexNumber>>,
     <<LexNumber, LexPlus, LexNumber, LexLessEqual, LexNumber>>,
     <<LexMinus, LexNumber, LexStar, LexBang, LexNumber>>,
     <<LexLeftParen, LexNumber, LexMinus, LexNumber, LexRightParen, LexStar, LexNumber>>,
     <<LexBang, LexLeftParen, LexNil, LexEqualEqual, LexTrue, LexRightParen>>,
     <<LexLeftParen, LexA, LexRightParen, LexEqual, LexNumber>>,
     <<LexLeftParen, LexNumber>>,
     <<LexA, LexEqual, LexA, LexEqual, LexString, LexPlus, LexString>>,
     <<LexFalse, LexOr, LexNumber>>,
     <<LexA, LexAnd, LexA, LexOr, LexNumber>>,
     <<LexA, LexEqual, LexNumber, LexAnd, LexNumber>>}

ExprInputs ==
    UNION {[1..n -> ExprAlphabet] : n \in 0..MaxExprTokens} \cup ExprExamples

\* the tokens of an input, as the tree-walker's scanner hands them to
\* Parser::new
RECURSIVE TokensOf(_, _)
TokensOf(lexemes, i) ==
    IF i > Len(lexemes) THEN <<Tok("EOF", "", 1)>>
    ELSE <<lexemes[i].token>> \o TokensOf(lexemes, i + 1)

\* the text of an input
RECURSIVE TextOf(_, _)
TextOf(lexemes, i) ==
    IF i > Len(lexemes) THEN <<>>
    ELSE lexemes[i].text \o (IF i < Len(lexemes) THEN <<" ">> ELSE <<>>)
         \o TextOf(lexemes, i + 1)

\* both front ends at their start, on the same input
FrontInit(lexemes) ==
    /\ program = <<>>
    /\ pc = "parse"
    /\ next_stmt = 1
    /\ heap = HeapNew
    /\ interpreter = InterpreterNew
    /\ HAD_ERROR = FALSE
    /\ HAD_RUNTIME_ERROR = FALSE
    /\ stdout = <<>>
    /\ stderr = <<>>
    /\ events = <<>>
    /\ clock = 1
    /\ parser = Parser_new(TokensOf(lexemes, 1))
    /\ vm = VmNew(TextOf(lexemes, 1), FALSE, FALSE)

ExprInit == \E input \in ExprInputs : FrontInit(input \o <<LexSemiColon>>)

ExprNext ==
    \/ ParseDeclaration \/ ParseDropped \/ ParseEnd
    \/ CompileBegin \/ CompileDeclaration \/ CompileOk \/ CompileFailed

SpecExpr == ExprInit /\ [][ExprNext]_vars

-----------------------------------------------------------------------------
(* Statements with errors in both front ends: Parser::parse on the tokens   *)
(* and Compiler::compile on their text, for every sequence of at most       *)
(* MaxSyncTokens of the tokens of SyncAlphabet, and those of SyncExamples.  *)

MaxSyncTokens == 3

LexPrint == Lexeme(Tok("Print", "print", 1), <<"p", "r", "i", "n", "t">>)
LexVar == Lexeme(Tok("Var", "var", 1), <<"v", "a", "r">>)
LexLeftBrace == Lexeme(Tok("LeftBrace", "{", 1), <<"{">>)
LexRightBrace == Lexeme(Tok("RightBrace", "}", 1), <<"}">>)

SyncAlphabet == {LexNumber, LexSemiColon, LexPrint, LexVar, LexPlus}

\* longer statements, and blocks, which the parser knows and the compiler
\* does not
SyncExamples ==
    {<<LexPlus, LexPrint, LexNumber, LexSemiColon>>,
     <<LexNumber, LexPrint, LexNumber, LexSemiColon>>,
     <<LexNumber, LexNumber, LexVar, LexA, LexSemiColon>>,
     <<LexVar, LexNumber, LexSemiColon, LexPrint, LexNumber, LexSemiColon>>,
     <<LexLeftBrace, LexNumber, LexSemiColon, LexRightBrace, LexPrint, LexNumber,
       LexSemiColon>>,
     <<LexLeftBrace, LexSemiColon, LexRightBrace, LexNumber, LexSemiColon>>,
     <<LexLeftBrace, LexPlus, LexSemiColon, LexNumber, LexSemiColon, LexRightBrace>>,
     <<LexLeftBrace, LexNumber, LexPrint, LexNumber, LexSemiColon, LexRightBrace>>,
     <<LexLeftBrace, LexLeftBrace, LexNumber, LexSemiColon>>,
     <<LexLeftBrace, LexPrint, LexRightBrace>>,
     <<LexLeftBrace, LexNumber, LexSemiColon, LexRightBrace, LexRightBrace,
       LexVar, LexA, LexSemiColon>>}

SyncInputs ==
    UNION {[1..n -> SyncAlphabet] : n \in 0..MaxSyncTokens} \cup SyncExamples

SyncInit == \E input \in SyncInputs : FrontInit(input)

SyncNext ==
    \/ ParseDeclaration \/ ParseDropped \/ ParseEnd
    \/ CompileBegin \/ CompileDeclaration \/ CompileOk \/ CompileFailed

SpecSync == SyncInit /\ [][SyncNext]_vars

\* parse() and compile() are each one loop of one thread, never preempted
\* for good: a step of either that can be taken is taken
SpecSyncFair ==
    /\ SpecSync
    /\ WF_vars(ParseDeclaration \/ ParseDropped \/ ParseEnd)
    /\ WF_vars(CompileBegin \/ CompileDeclaration \/ CompileOk \/ CompileFailed)

-----------------------------------------------------------------------------
(* Properties of the tree-walker run, stated over the history `events`. *)

Range(seq) == {seq[i] : i \in DOMAIN seq}
EventsOf(kind) == {i \in DOMAIN events : events[i].ev = kind}
Min(S) == CHOOSE x \in S : \A y \in S : x <= y
Max(S) == CHOOSE x \in S : \A y \in S : x >= y

\* the "call" event that the "callret" event j answers
CallOfRet(j) ==
    Max({i \in EventsOf("call") : i < j /\ events[i].frame = events[j].frame})

\* the `return` statements run by the call that ends at event j
ReturnsOf(j) ==
    {k \in CallOfRet(j)..j : events[k].ev = "return" /\ events[k].frame = events[j].frame}

\* the "evaluate" event that the "evaluated" event j answers
EvaluateOf(j) ==
    Max({i \in EventsOf("evaluate") : i < j /\ events[i].depth = events[j].depth})

\* the operands of expression j that were evaluated, in order
OperandsOf(j) ==
    {k \in EvaluateOf(j)..j : /\ events[k].ev = "evaluated"
                              /\ events[k].depth = events[j].depth + 1}

\* the results of execute() in Interpreter::interpret's loop
TopLevel == EventsOf("interpret")

Truthy(value) == value # Nil /\ value # Bool(FALSE)

\* C1: every call of a user function runs its body in an environment whose
\* parent is the environment that was current when the `fun` declaration was
\* executed, and the program
\*   var a = "global"; { fun show() { print a; } show(); var a = "local"; show(); }
\* prints global twice.
C1_LexicalScoping ==
    /\ \A i \in EventsOf("call") :
          \E j \in EventsOf("declare") :
              /\ j < i
              /\ events[j].id = events[i].id
              /\ events[j].environment = events[i].parent
    /\ (program = <<DeclareGlobalA, ScopeBlock>> /\ pc = "done")
          => stdout = <<stringify(String("global")), stringify(String("global"))>>

\* C2: LoxFunction::call binds the i-th parameter name to the i-th argument
\* in a new environment whose parent is the captured closure; its result is
\* the value of the first `return` run in the body, Nil when the body ends
\* without one, and the body's runtime error when it raises one; the call
\* expression evaluates to that result.
C2_CallResult ==
    /\ \A i \in EventsOf("call") :
          /\ events[i].parent = events[i].closure
          /\ events[i].env \notin {events[k].env : k \in {c \in EventsOf("call") : c < i}}
          /\ DOMAIN events[i].bound =
                {events[i].params[p].lexeme : p \in DOMAIN events[i].params}
          /\ \A p \in DOMAIN events[i].params :
                (\A q \in DOMAIN events[i].params :
                    q > p => events[i].params[q].lexeme # events[i].params[p].lexeme)
                => events[i].bound[events[i].params[p].lexeme] = events[i].arguments[p]
    /\ \A j \in EventsOf("callret") :
          /\ IF ReturnsOf(j) # {}
             THEN events[j].result = Ok(events[Min(ReturnsOf(j))].value)
             ELSE IF events[j].body.tag = "Runtime"
                  THEN events[j].result = events[j].body
                  ELSE events[j].result = Ok(Nil)
          /\ events[j + 1].ev = "evaluated"
          /\ events[j + 1].expr.k = "Call"
          /\ events[j + 1].result = events[j].result

\* a call with an argument whose body returned from inside a loop
C2_Witness ==
    /\ pc = "done"
    /\ \E j \in EventsOf("callret") :
          /\ events[CallOfRet(j)].arguments = <<Number(7)>>
          /\ events[CallOfRet(j)].bound["x"] = Number(7)
          /\ events[j].result = Ok(String("first"))

C4_ArityCheck ==
    \A i \in EventsOf("arity") :
        LET N == IF events[i].callable.kind = "LoxFunction"
                 THEN Len(events[i].callable.declaration.params) ELSE 0
            M == events[i].got
        IN  IF M # N
            THEN /\ events[i + 1].ev = "evaluated"
                 /\ events[i + 1].expr.k = "Call"
                 /\ events[i + 1].result.tag = "Runtime"
                 /\ events[i + 1].result.message =
                       "Expected " \o ToString(N) \o " arguments but got "
                       \o ToString(M) \o "."
            ELSE events[i].callable.kind = "LoxFunction" => events[i + 1].ev = "call"

\* a user function of one parameter was called without arguments
C4_Witness ==
    /\ pc = "done"
    /\ \E i \in EventsOf("arity") :
          /\ events[i].callable.kind = "LoxFunction"
          /\ Len(events[i].callable.declaration.params) = 1
          /\ events[i].got = 0
    /\ EventsOf("call") = {}

\* C5: `a and b` with a falsy and `a or b` with a truthy evaluate a only and
\* have the value of a; otherwise they evaluate a, then b, and have the value
\* of b, whatever its type.
C5_ShortCircuit ==
    \A j \in EventsOf("evaluated") :
        (events[j].expr.k = "Logical" /\ events[Min(OperandsOf(j))].result.tag = "Ok")
        => LET a == events[Min(OperandsOf(j))]
               decided == IF events[j].expr.operator.token_type = "Or"
                          THEN Truthy(a.result.value)
                          ELSE ~Truthy(a.result.value)
           IN  /\ a.expr = events[j].expr.left
               /\ IF decided
                  THEN /\ Cardinality(OperandsOf(j)) = 1
                       /\ events[j].result = a.result
                  ELSE /\ Cardinality(OperandsOf(j)) = 2
                       /\ events[Max(OperandsOf(j))].expr = events[j].expr.right
                       /\ events[j].result = events[Max(OperandsOf(j))].result

\* an `or` and an `and` that were decided by their left operand, and an `or`
\* whose value is its right operand's, not a Bool
C5_Witness ==
    /\ \E j \in EventsOf("evaluated") :
          /\ events[j].expr.k = "Logical"
          /\ events[j].expr.operator.token_type = "Or"
          /\ Cardinality(OperandsOf(j)) = 1
          /\ events[j].result = Ok(String("global"))
    /\ \E j \in EventsOf("evaluated") :
          /\ events[j].expr.k = "Logical"
          /\ events[j].expr.operator.token_type = "And"
          /\ Cardinality(OperandsOf(j)) = 1
          /\ events[j].result = Ok(Bool(FALSE))
    /\ \E j \in EventsOf("evaluated") :
          /\ events[j].expr.k = "Logical"
          /\ events[j].expr.operator.token_type = "Or"
          /\ Cardinality(OperandsOf(j)) = 2
          /\ events[j].result = Ok(Nil)

\* one is a prefix of the other
Prefix(short, long) ==
    Len(short) <= Len(long) /\ SubSeq(long, 1, Len(short)) = short

\* C6: the step of Interpreter::interpret in which a statement raises a
\* runtime error sets HAD_RUNTIME_ERROR, prints exactly one diagnostic, ends
\* the loop at that statement and keeps what the statements before it did;
\* no step of the run follows it.
C6_RuntimeErrorAborts ==
    [][/\ ~HAD_RUNTIME_ERROR
       /\ HAD_RUNTIME_ERROR'
          => /\ events' # events
             /\ stderr' = Append(stderr, RuntimeErrorLine(events'[Max(TopLevel)'].result))
             /\ events'[Max(TopLevel)'].result.tag = "Runtime"
             /\ Cardinality(TopLevel') = next_stmt
             /\ events'[Max(TopLevel)'].statement = next_stmt
             /\ next_stmt' = next_stmt
             /\ pc' = "done"
             /\ Prefix(stdout, stdout')
             /\ Prefix(events, events')
             /\ DOMAIN heap[Globals].values \subseteq DOMAIN heap'[Globals].values
             /\ HAD_ERROR' = HAD_ERROR]_vars

\* the third statement raised a runtime error after the first had printed
C6_Witness ==
    /\ HAD_RUNTIME_ERROR
    /\ pc = "done"
    /\ next_stmt = 3
    /\ Len(stdout) >= 1
    /\ Len(stderr) = 1

\* C7: when the parser has met a parse error in a source, the error flag is
\* set once the run is over and the interpreter has executed no statement of
\* that source.
C7_ParseErrorStopsRun ==
    EventsOf("parse_error") # {}
    => /\ EventsOf("executed") = {}
       /\ pc = "done" => HAD_ERROR

-----------------------------------------------------------------------------
(* Properties of VM::interpret, stated over the compiler's diagnostics and  *)
(* the VM's trace.                                                          *)

\* the scanner has returned an error to compile()
ScannerError == vm.result.tag = "Err" /\ vm.result.kind = "TokenError"

\* C8: when error_at has issued a diagnostic during compile(), or the scanner
\* has returned an error, compile() has not returned Ok(true) and run() is not
\* called: the VM has decoded no instruction and has printed nothing.
C8_NoRunAfterCompileError ==
    (vm.compiler.errors_at # <<>> \/ ScannerError)
    => /\ vm.res # Ok(TRUE)
       /\ vm.pc # "run"
       /\ vm.machine # None => vm.machine.trace = <<>> /\ vm.machine.ip = 0
       /\ stdout = <<>>

\* a compile() with a diagnostic has returned Ok(false) with a chunk of
\* several instructions, and VM::interpret is over with the VM untouched
C8_Witness ==
    /\ vm.pc = "done"
    /\ vm.compiler.errors_at # <<>>
    /\ vm.res = Ok(FALSE)
    /\ Len(vm.compiler.chunk.code) > 2
    /\ vm.machine = VM_new
    /\ vm.result = Ok(Unit)

\* C9: every operand byte that make_constant hands out is the index at which
\* add_constant stored the value, and a chunk of more than 256 constants has
\* the diagnostic "Too many constants in one chunk." and a failed compile().
C9_ConstantIndexFits ==
    /\ \A i \in DOMAIN vm.compiler.operands : vm.compiler.operands[i] = i - 1
    /\ Len(vm.compiler.chunk.constants) > U8Max + 1
       => /\ "Too many constants in one chunk." \in Range(vm.compiler.errors_at)
          /\ vm.res # Ok(TRUE)

-----------------------------------------------------------------------------
(* Truthiness in the two interpreters *)

\* the literal of the statement `!!V;`
TruthyValue == program[1].expression.right.right.value

\* the "evaluated" events of `!!V`
NotNotEvaluated ==
    {i \in EventsOf("evaluated") : events[i].expr = program[1].expression}

\* the VM's steps j such that j and j + 1 are OpNot
NotNotSteps ==
    IF vm.machine = None THEN {}
    ELSE {j \in 1..(Len(vm.machine.trace) - 1) :
              /\ vm.machine.trace[j].op = "OpNot"
              /\ vm.machine.trace[j + 1].op = "OpNot"}

Top(stack) == stack[Len(stack)]

\* C10: is_truthy(V) and the negation of is_falsey(V) are true exactly when V
\* is neither Nil nor Bool(false), and `!!V` is Bool(truthy(V)) in the
\* tree-walker's evaluation and on the VM's stack.
C10_Truthiness ==
    /\ is_truthy(TruthyValue) = Truthy(TruthyValue)
    /\ ~VM_is_falsey(TruthyValue) = Truthy(TruthyValue)
    /\ is_truthy(NativeClock)
    /\ \A i \in NotNotEvaluated :
          events[i].result = Ok(Bool(Truthy(TruthyValue)))
    /\ \A j \in NotNotSteps :
          /\ Top(vm.machine.trace[j].before) = TruthyValue
          /\ Top(vm.machine.trace[j + 1].after) = Bool(Truthy(TruthyValue))

\* both interpreters have applied `!` twice to the number 0 and have true
C10_Witness ==
    /\ TruthyValue = Number(0)
    /\ \E i \in NotNotEvaluated : events[i].result = Ok(Bool(TRUE))
    /\ \E j \in NotNotSteps : Top(vm.machine.trace[j + 1].after) = Bool(TRUE)
    /\ vm.pc = "done"
    /\ pc = "done"

\* the "evaluated" events of a unary `-` whose operand is not a Number
NegatedNonNumbers ==
    {i \in EventsOf("evaluated") :
         /\ events[i].expr.k = "Unary"
         /\ events[i].expr.operator.token_type = "Minus"
         /\ \E k \in OperandsOf(i) : /\ events[k].result.tag = "Ok"
                                     /\ events[k].result.value.t # "Number"}

\* the VM's steps of OpNegate on a value that is not a Number
NegateSteps ==
    IF vm.machine = None THEN {}
    ELSE {j \in DOMAIN vm.machine.trace :
              /\ vm.machine.trace[j].op = "OpNegate"
              /\ Top(vm.machine.trace[j].before).t # "Number"}

\* C11: unary `-` on a value that is not a Number is a runtime error and
\* gives no value, in the tree-walker's visit_unary_expr and in the VM's
\* OpNegate.
C11_NegateRequiresNumber ==
    /\ \A i \in NegatedNonNumbers : events[i].result.tag = "Runtime"
    /\ \A j \in NegateSteps :
          /\ vm.machine.trace[j].result.tag = "Err"
          /\ vm.machine.trace[j].after = vm.machine.trace[j].before

\* the VM's steps of OpAdd
AddSteps ==
    IF vm.machine = None THEN {}
    ELSE {j \in DOMAIN vm.machine.trace : vm.machine.trace[j].op = "OpAdd"}

\* the stack without its n topmost values
Below(stack, n) == SubSeq(stack, 1, Len(stack) - n)

\* the value n - 1 below the top of the stack
Peek(stack, n) == stack[Len(stack) + 1 - n]

\* what OpAdd is to leave on the stack for the operands a and b, if anything
Sum(a, b) ==
    IF a.t = "String" /\ b.t = "String" THEN <<String(a.s \o b.s)>>
    ELSE IF a.t = "Number" /\ b.t = "Number" THEN <<Number(a.n + b.n)>>
    ELSE <<>>

\* C12: OpAdd pops its two operands; on two Strings it pushes their
\* concatenation, left operand first, on two Numbers their sum, both without
\* a runtime error; on any other pair it is a runtime error.
C12_AddConcatenates ==
    \A j \in AddSteps :
        \E step \in {vm.machine.trace[j]} :
            \E pushed \in {Sum(Peek(step.before, 2), Peek(step.before, 1))} :
                /\ step.after = Below(step.before, 2) \o pushed
                /\ (step.result.tag = "Err") = (pushed = <<>>)

\* the instructions that carry a constant's index
ConstantOps == {Op("OpConstant"), Op("OpDefineGlobal"), Op("OpGetGlobal"),
                Op("OpSetGlobal")}

\* the code from offset i on, as it reads when every constant's index is
\* one more
RECURSIVE Shifted(_, _)
Shifted(code, i) ==
    IF i > Len(code) THEN <<>>
    ELSE IF code[i] \in ConstantOps /\ i < Len(code)
         THEN <<code[i], code[i + 1] + 1>> \o Shifted(code, i + 2)
         ELSE <<code[i]>> \o Shifted(code, i + 1)

\* the chunk of the expression statement `E;`
ValueChunk(value) == Compiler_compile(value \o <<";">>).s.chunk

\* the code of the expression E in the chunk of `E;`: all but OpPop, OpReturn
ValueCode(value) == SubSeq(ValueChunk(value).code, 1, Len(ValueChunk(value).code) - 2)

\* compile() of `T=E;` has returned
AssignCompiled(target, value) ==
    /\ vm.compiler.source = AssignSource(target, value)
    /\ vm.pc \in {"run", "done"}

\* C13: when the left side of `=` is not a bare identifier, compile() reports
\* "Invalid assignment target." and does not succeed, so that nothing is
\* run; when it is the identifier a, the chunk of `a = E;` is the name's
\* constant, the code of E, SetGlobal with the name's index, and no
\* diagnostic is issued.
C13_AssignmentTarget ==
    \A target \in AssignTargets : \A value \in AssignValues :
        /\ (~target.identifier /\ AssignCompiled(target, value))
              => /\ "Invalid assignment target." \in Range(vm.compiler.errors_at)
                 /\ vm.compiler.parser.had_error
                 /\ vm.res = Ok(FALSE)
                 /\ vm.pc = "done"
        /\ (target.identifier /\ AssignCompiled(target, value))
              => /\ vm.compiler.errors_at = <<>>
                 /\ vm.res = Ok(TRUE)
                 /\ vm.compiler.chunk.constants
                       = <<String("a")>> \o ValueChunk(value).constants
                 /\ vm.compiler.chunk.code
                       = Shifted(ValueCode(value), 1)
                         \o <<Op("OpSetGlobal"), 0, Op("OpPop"), Op("OpReturn")>>

\* `a+b=1;` has been refused and `a=1+2;` compiled
C13_Witness ==
    /\ vm.pc = "done"
    /\ \/ /\ vm.compiler.source = <<"a", "+", "b", "=", "1", ";">>
          /\ vm.compiler.errors_at = <<"Invalid assignment target.">>
       \/ /\ vm.compiler.source = <<"a", "=", "1", "+", "2", ";">>
          /\ vm.compiler.chunk.code
                = <<Op("OpConstant"), 1, Op("OpConstant"), 2, Op("OpAdd"),
                    Op("OpSetGlobal"), 0, Op("OpPop"), Op("OpReturn")>>

\* report() has been called
Reported ==
    \E i \in DOMAIN stderr :
        \E messages \in ScanReports : stderr[i] \in Range(ErrorLines(1, messages))

\* runtime_error() has been called
RuntimeReported == \E i \in EventsOf("interpret") : events[i].result.tag # "Ok"

\* C14: no step of the program takes HAD_ERROR or HAD_RUNTIME_ERROR from true
\* back to false, and each flag is true exactly when a report of its kind
\* has been made.
C14_FlagsSetOnly ==
    /\ [][/\ HAD_ERROR => HAD_ERROR'
          /\ HAD_RUNTIME_ERROR => HAD_RUNTIME_ERROR']_vars
    /\ [](/\ HAD_ERROR = Reported
          /\ HAD_RUNTIME_ERROR = RuntimeReported)

\* a line has raised a runtime error and the scanner has reported the line
\* after it: both flags are set when run_prompt ends
C14_Witness ==
    /\ HAD_ERROR
    /\ HAD_RUNTIME_ERROR
    /\ pc = "exit"
    /\ \E i \in EventsOf("interpret") : \E j \in EventsOf("prompt") :
          /\ i < j
          /\ events[i].result.tag # "Ok"
          /\ events[j].reports # <<>>

\* the offsets of the source that lie in the span of a token
Covered ==
    {k \in 0..(Len(vm.source) - 1) :
         \E i \in DOMAIN vm.tokens :
             /\ vm.tokens[i].start <= k
             /\ k < vm.tokens[i].start + vm.tokens[i].length}

Whitespace == {" ", "\r", "\t", "\n"}

\* offset k is in a `//` comment: a `//` outside the tokens begins at or
\* before it, with no end of line between them
InComment(k) ==
    \E c \in 0..k :
        /\ c + 1 < Len(vm.source)
        /\ vm.source[c + 1] = "/" /\ vm.source[c + 2] = "/"
        /\ {c, c + 1} \cap Covered = {}
        /\ \A n \in c..k : vm.source[n + 1] # "\n"

\* the lexemes of the tokens from the i-th on, one after the other
RECURSIVE Lexemes(_)
Lexemes(i) ==
    IF i > Len(vm.tokens) THEN ""
    ELSE Token_slice(vm.tokens[i], vm.source) \o Lexemes(i + 1)

\* the source from offset i on without its whitespace and its comments,
\* which a string literal does not have
RECURSIVE Stripped(_, _, _)
Stripped(source, i, in_string) ==
    IF i >= Len(source) THEN ""
    ELSE IF in_string
         THEN source[i + 1] \o Stripped(source, i + 1, source[i + 1] # "\"")
    ELSE IF source[i + 1] = "\""
         THEN source[i + 1] \o Stripped(source, i + 1, TRUE)
    ELSE IF source[i + 1] \in Whitespace THEN Stripped(source, i + 1, FALSE)
    ELSE IF source[i + 1] = "/" /\ i + 1 < Len(source) /\ source[i + 2] = "/"
         THEN Stripped(source,
                       Min({n \in i..Len(source) :
                                n = Len(source) \/ source[n + 1] = "\n"}),
                       FALSE)
    ELSE source[i + 1] \o Stripped(source, i + 1, FALSE)

\* C15: while scan_token returns no error, each token begins after the one
\* before it and at or after its end, and lies in the source; once EOF is
\* returned, every character outside the tokens is whitespace or in a `//`
\* comment, and the lexemes in order are the source without its whitespace
\* and comments.
C15_ScannerRoundTrip ==
    (vm.result.tag # "Err") =>
        /\ \A i \in DOMAIN vm.tokens :
              /\ vm.tokens[i].start + vm.tokens[i].length <= Len(vm.source)
              /\ vm.tokens[i].token_type # "EOF" => vm.tokens[i].length > 0
              /\ i > 1 => /\ vm.tokens[i - 1].start < vm.tokens[i].start
                          /\ vm.tokens[i - 1].start + vm.tokens[i - 1].length
                                <= vm.tokens[i].start
        /\ vm.pc = "done" =>
              /\ \A k \in (0..(Len(vm.source) - 1)) \ Covered :
                    vm.source[k + 1] \in Whitespace \/ InComment(k)
              /\ Lexemes(1) = Stripped(vm.source, 0, FALSE)

\* `1//a` and `a /1` have been scanned to EOF: a comment and a blank were
\* skipped between or after the tokens
C15_Witness ==
    /\ vm.pc = "done"
    /\ vm.result.tag = "Ok"
    /\ \/ /\ vm.source = <<"1", "/", "/", "a">>
          /\ Len(vm.tokens) = 2
       \/ /\ vm.source = <<"a", " ", "/", "1">>
          /\ Len(vm.tokens) = 4

\* the environment reached from e by following `enclosing` d times
RECURSIVE Hops(_, _, _)
Hops(h, e, d) ==
    IF e = NoEnv \/ d = 0 THEN e ELSE Hops(h, h[e].enclosing, d - 1)

\* C16: a read of a variable for which locals holds the distance d gives the
\* value that the name has in the environment d `enclosing` hops from the
\* current one (the current one for d = 0), whenever the name is bound there.
C16_ReadAtDistance ==
    \A i \in EventsOf("look_up_variable") :
        \E read \in {events[i]} :
            read.distance # <<>> =>
                \E target \in {Hops(read.heap, read.environment, read.distance[1])} :
                    (/\ target # NoEnv
                     /\ read.expr.name.lexeme \in DOMAIN read.heap[target].values)
                        => read.result
                              = Ok(read.heap[target].values[read.expr.name.lexeme])

\* the reads and the assignments of variables
Accesses == EventsOf("look_up_variable") \cup EventsOf("assign")

\* the environment n hops from the one of the access binds its name
BoundAt(access, n) ==
    \E target \in {Hops(access.heap, access.environment, n)} :
        /\ target # NoEnv
        /\ access.expr.name.lexeme \in DOMAIN access.heap[target].values

\* the distances that the resolver has assigned to the expression
ResolvedDepths(expr) ==
    {events[j].depth : j \in {r \in EventsOf("resolve") : events[r].expr = expr}}

\* C17: whenever a variable or assign expression to which the resolver has
\* assigned a distance d is evaluated, the environment d hops from the
\* current one binds the name and none of the nearer ones does, which makes
\* it the environment of the scope that declares the name; an expression
\* whose name the resolver found in no scope has no entry in locals and is
\* read in globals.
C17_DistancesMatchChain ==
    \A i \in Accesses :
        \E access \in {events[i]} :
            /\ ResolvedDepths(access.expr) # {} =>
                  \E d \in ResolvedDepths(access.expr) :
                      /\ BoundAt(access, d)
                      /\ \A n \in 0..(d - 1) : ~BoundAt(access, n)
            /\ ResolvedDepths(access.expr) = {} =>
                  /\ access.distance = <<>>
                  /\ access.ev = "look_up_variable" =>
                        access.result = get(access.heap, Globals, access.expr.name)

\* AssignBlock and `print a;` have run: an assignment and a read at distance
\* 1 and a read at distance 0 were evaluated, and the `a` of the top level
\* was read in globals
C17_Witness ==
    /\ pc = "done"
    /\ program = <<AssignBlock, PrintA>>
    /\ \E i \in EventsOf("assign") : events[i].distance = <<1>>
    /\ \E i \in EventsOf("look_up_variable") : events[i].distance = <<1>>
    /\ \E i \in EventsOf("look_up_variable") : events[i].distance = <<0>>
    /\ \E i \in EventsOf("look_up_variable") : events[i].distance = <<>>

\* C18: the depth that Interpreter::resolve has recorded for an occurrence
\* of a variable or assign expression is the depth that locals gives for
\* that occurrence afterwards, whatever was resolved after it.
C18_OccurrenceIdentity ==
    \A i \in EventsOf("resolve") :
        /\ events[i].expr \in DOMAIN interpreter.locals
        /\ interpreter.locals[events[i].expr] = events[i].depth

\* the calls of execute_block that have returned
Blocks == EventsOf("execute_block")

\* C19: when execute_block returns, with Ok, with a runtime error or with a
\* Return, the current environment is the one that was current when it was
\* called; between the statements of interpret and after it the current
\* environment is globals.
C19_EnvironmentRestored ==
    /\ \A i \in Blocks : events[i].restored = events[i].previous
    /\ interpreter.environment = interpreter.globals

\* g and BlockExits have run: execute_block has returned Ok, a Return and a
\* runtime error, each from an environment other than the one it restored
C19_Witness ==
    /\ pc = "done"
    /\ program = <<DeclareG, BlockExits>>
    /\ \A tag \in {"Ok", "Return", "Runtime"} :
          \E i \in Blocks : /\ events[i].result.tag = tag
                            /\ events[i].environment # events[i].previous

IsWrite(call) == call.fn = "write"

\* the calls of write, in order
Writes == SelectSeq(vm.calls, IsWrite)

\* C20: after any sequence of write and add_constant calls code and lines
\* have the same length, code[i] and lines[i] are the byte and the line of
\* the i-th call of write, and add_constant has changed neither of them.
C20_ChunkLengths ==
    /\ Len(vm.chunk.code) = Len(vm.chunk.lines)
    /\ Len(vm.chunk.code) = Len(Writes)
    /\ \A i \in DOMAIN Writes :
          /\ vm.chunk.code[i] = Writes[i].byte
          /\ vm.chunk.lines[i] = Writes[i].line
    /\ \A k \in DOMAIN vm.calls :
          vm.calls[k].fn = "add_constant" =>
              /\ vm.calls[k].after.code = vm.calls[k].before.code
              /\ vm.calls[k].after.lines = vm.calls[k].before.lines

\* two bytes of line 1, a constant and a byte of line 2 have been written
C20_Witness ==
    /\ Len(vm.calls) = 4
    /\ vm.calls[3].fn = "add_constant"
    /\ vm.chunk.code = <<1, U8Max, 0>>
    /\ vm.chunk.lines = <<1, 1, 2>>
    /\ Len(vm.chunk.constants) = 1

-----------------------------------------------------------------------------
(* Properties of the VM's run of the chunks that compile() produces *)

\* the VM's trace, empty before VM::interpret has built the VM
Trace == IF vm.machine = None THEN <<>> ELSE vm.machine.trace

\* the steps of the trace that decoded the opcodes ops
StepsOf(ops) == {j \in DOMAIN Trace : Trace[j].op \in ops}

\* the byte after the opcode of step j: the operand the compiler wrote
OperandOf(j) == vm.compiler.chunk.code[Trace[j].ip + 2]

\* the name that the operand of step j is the constant index of
NameOf(j) == vm.compiler.chunk.constants[OperandOf(j) + 1]

\* step j has read the byte after its opcode: the offset run() decodes next
\* is two further
OperandConsumed(j) ==
    IF j < Len(Trace) THEN Trace[j + 1].ip = Trace[j].ip + 2
    ELSE vm.machine.ip = Trace[j].ip + 2

\* the value that the last OpDefineGlobal of the name of step j before j
\* popped; <<>> when there is none
DefinedBefore(j) ==
    LET defines == {i \in StepsOf({"OpDefineGlobal"}) :
                        i < j /\ NameOf(i) = NameOf(j) /\ Trace[i].before # <<>>}
    IN  IF defines = {} THEN <<>>
        ELSE <<Top(Trace[CHOOSE i \in defines : \A k \in defines : k <= i].before)>>

\* C21: OpDefineGlobal pops the top value (the global's value from then on)
\* and OpGetGlobal of a defined name pushes that value; each consumes its
\* operand byte as a constant index.
C21_DefineAndGetGlobal ==
    /\ \A j \in StepsOf({"OpDefineGlobal"}) :
          /\ Trace[j].before # <<>>
             => Trace[j].after = SubSeq(Trace[j].before, 1, Len(Trace[j].before) - 1)
          /\ OperandConsumed(j)
    /\ \A j \in StepsOf({"OpGetGlobal"}) :
          DefinedBefore(j) # <<>>
          => /\ Trace[j].after = Trace[j].before \o DefinedBefore(j)
             /\ OperandConsumed(j)

\* C22: OpGetGlobal or OpSetGlobal of a name that no OpDefineGlobal has
\* defined ends run() with a runtime error, with nothing pushed or popped;
\* OpSetGlobal of a defined name leaves the stack, with the assigned value on
\* top, as it is.
C22_UndefinedGlobalIsError ==
    \A j \in StepsOf({"OpGetGlobal", "OpSetGlobal"}) :
        IF DefinedBefore(j) = <<>>
        THEN /\ Trace[j].result.tag = "Err"
             /\ Trace[j].after = Trace[j].before
             /\ j = Len(Trace)
             /\ vm.pc = "done"
        ELSE Trace[j].op = "OpSetGlobal"
             => /\ Trace[j].result = Continue
                /\ Trace[j].after = Trace[j].before
                /\ OperandConsumed(j)

\* C23: OpPrint pops the top of the stack and writes it on a line of stdout,
\* OpPop pops it and writes nothing.
C23_PrintAndPopRemoveOne ==
    \A j \in StepsOf({"OpPrint", "OpPop"}) :
        /\ Trace[j].before # <<>>
        /\ Trace[j].after = SubSeq(Trace[j].before, 1, Len(Trace[j].before) - 1)
        /\ Trace[j].op = "OpPrint"
           => \E k \in DOMAIN stdout : stdout[k] = Value_Display(Top(Trace[j].before))

\* C24: the OpReturn of a chunk of a compile() that returned Ok(true) makes
\* run() return Ok(()): the step has no runtime error and is the last.
C24_ReturnHalts ==
    \A j \in StepsOf({"OpReturn"}) :
        /\ Trace[j].result.tag = "Ok"
        /\ j = Len(Trace)
        /\ vm.pc = "done"
        /\ vm.result = Ok(Unit)

\* the opcodes that the compiler writes with an operand byte after them:
\* emit_bytes(op, arg) in emit_constant, named_variable and define_variable
WithOperand == {"OpConstant", "OpDefineGlobal", "OpGetGlobal", "OpSetGlobal"}

\* the offsets of the opcodes of the code from `offset` on, as the compiler
\* wrote them one instruction after the other
RECURSIVE Opcodes(_, _)
Opcodes(code, offset) ==
    IF offset >= Len(code) THEN {}
    ELSE {offset}
         \cup Opcodes(code, IF OpCode_from_u8(code[offset + 1]) \in WithOperand
                            THEN offset + 2 ELSE offset + 1)

\* C28: every byte that run() decodes as an instruction is a byte that the
\* compiler wrote as an opcode, and the operand byte of an opcode written
\* with one is read by that instruction.
C28_InstructionAlignment ==
    \A j \in DOMAIN Trace :
        /\ Trace[j].ip \in Opcodes(vm.compiler.chunk.code, 0)
        /\ Trace[j].op \in WithOperand /\ Trace[j].result.tag = "Ok"
           => OperandConsumed(j)

\* the messages of the runtime errors of run()
RunErrors ==
    {"Cannot negate non number", "Cannot add two non numbers",
     "Cannot subtract two non numbers", "Cannot compare two non numbers",
     "No value on stack", "Failed to get constant", "End of Stream"}

\* how a run() that is over has ended: Ok at an OpReturn that found a value
\* on the stack, the only OpReturn decoded, or one of the runtime errors; an
\* "End of Stream" is raised with ip at len(code)
RunEnded ==
    IF vm.result = Ok(Unit)
    THEN /\ Trace # <<>>
         /\ Trace[Len(Trace)].op = "OpReturn"
         /\ Trace[Len(Trace)].before # <<>>
         /\ StepsOf({"OpReturn"}) = {Len(Trace)}
    ELSE /\ vm.result.tag = "Err"
         /\ vm.result.kind = "RuntimeError"
         /\ vm.result.message \in RunErrors
         /\ vm.result.message = "End of Stream"
            => vm.machine.ip = Len(vm.compiler.chunk.code)

\* every byte decoded, and every operand read, is inside the code
ReadsInside ==
    /\ vm.machine.ip <= Len(vm.compiler.chunk.code)
    /\ \A j \in DOMAIN Trace : Trace[j].ip < Len(vm.compiler.chunk.code)

\* an iteration of run()'s loop that goes on to the next has moved ip forward
\* by one or two, and no iteration moves it back
IpAdvances ==
    /\ VmStep => /\ vm'.machine.ip > vm.machine.ip
                 /\ vm'.machine.ip <= vm.machine.ip + 2
    /\ vm'.machine.ip >= vm.machine.ip

\* C29: run() terminates on every chunk: ip moves forward in every iteration
\* that goes on and never back, no read is outside the code, and the run
\* comes to an end, with Ok at the first OpReturn that finds a value on the
\* stack or with a runtime error.
C29_RunTerminates ==
    /\ [][IpAdvances]_vars
    /\ [](ReadsInside /\ (vm.pc = "done" => RunEnded))
    /\ <>(vm.pc = "done")

\* a run has gone through an unknown opcode and an OpGetGlobal, has pushed a
\* value and has returned Ok at the OpReturn, before the end of the code
C29_Witness ==
    /\ vm.pc = "done"
    /\ vm.result = Ok(Unit)
    /\ Len(Trace) = 4
    /\ Trace[1].op = "None"
    /\ Trace[2].op = "OpGetGlobal"
    /\ Trace[3].op = "OpNil"
    /\ vm.compiler.chunk.constants = <<>>

\* a run has ended with "End of Stream" after it has decoded the whole code
C29_WitnessEnd ==
    /\ vm.pc = "done"
    /\ vm.result.tag = "Err"
    /\ vm.result.message = "End of Stream"
    /\ Len(Trace) = MaxCodeLen

-----------------------------------------------------------------------------
(* Properties of the two front ends on the same input *)

\* the opcodes that binary() emits for an operator
OperatorCode(token_type) ==
    CASE token_type = "Plus" -> <<<<"OpAdd">>>>
      [] token_type = "Minus" -> <<<<"OpSubtract">>>>
      [] token_type = "Star" -> <<<<"OpMultiply">>>>
      [] token_type = "Slash" -> <<<<"OpDivide">>>>
      [] token_type = "EqualEqual" -> <<<<"OpEqual">>>>
      [] token_type = "BangEqual" -> <<<<"OpEqual">>, <<"OpNot">>>>
      [] token_type = "Greater" -> <<<<"OpGreater">>>>
      [] token_type = "GreaterEqual" -> <<<<"OpLess">>, <<"OpNot">>>>
      [] token_type = "Less" -> <<<<"OpLess">>>>
      [] token_type = "LessEqual" -> <<<<"OpGreater">>, <<"OpNot">>>>
      [] OTHER -> <<<<token_type>>>>

\* the post-order of an expression of the parser: the instructions of the
\* left operand, of the right operand, then the operator's; an instruction
\* with an operand is written with the constant it names
RECURSIVE PostOrder(_)
PostOrder(expr) ==
    CASE expr.k = "Literal" ->
           (CASE expr.value.t = "Nil" -> <<<<"OpNil">>>>
              [] expr.value.t = "Bool" ->
                   <<<<IF expr.value.b THEN "OpTrue" ELSE "OpFalse">>>>
              [] OTHER -> <<<<"OpConstant", expr.value>>>>)
      [] expr.k = "Variable" -> <<<<"OpGetGlobal", String(expr.name.lexeme)>>>>
      [] expr.k = "Assign" ->
           PostOrder(expr.value) \o <<<<"OpSetGlobal", String(expr.name.lexeme)>>>>
      [] expr.k = "Grouping" -> PostOrder(expr.expression)
      [] expr.k = "Unary" ->
           PostOrder(expr.right)
           \o <<<<IF expr.operator.token_type = "Bang" THEN "OpNot" ELSE "OpNegate">>>>
      [] expr.k \in {"Binary", "Logical"} ->
           PostOrder(expr.left) \o PostOrder(expr.right)
           \o OperatorCode(expr.operator.token_type)

\* the instructions of a chunk from `offset` on, each operand replaced by
\* the constant it names
RECURSIVE Instructions(_, _)
Instructions(chunk, offset) ==
    IF offset >= Len(chunk.code) THEN <<>>
    ELSE IF OpCode_from_u8(chunk.code[offset + 1]) \in WithOperand
    THEN <<<<OpCode_from_u8(chunk.code[offset + 1]),
             chunk.constants[chunk.code[offset + 2] + 1]>>>>
         \o Instructions(chunk, offset + 2)
    ELSE <<<<OpCode_from_u8(chunk.code[offset + 1])>>>>
         \o Instructions(chunk, offset + 1)

\* Parser::parse and compile() have both returned
FrontsDone == pc = "interpret" /\ vm.pc \in {"run", "done"}

\* Parser::parse has met no parse error
ParserAccepts == EventsOf("parse_error") = {}

\* compile() has returned Ok(true)
CompilerAccepts == vm.res = Ok(TRUE)

\* C25: the compiler accepts an expression statement exactly when the
\* recursive-descent parser accepts it, and the code it emits is then the
\* post-order of the parser's tree, followed by OpPop and OpReturn.
C25_CompilerMatchesGrammar ==
    FrontsDone
    => /\ CompilerAccepts <=> ParserAccepts
       /\ CompilerAccepts /\ ParserAccepts
          => /\ Len(program) = 1
             /\ program[1].k = "Expression"
             /\ Instructions(vm.compiler.chunk, 0)
                = PostOrder(program[1].expression) \o <<<<"OpPop">>, <<"OpReturn">>>>

\* what compile() has reported so far, and its flags
Diagnostics == vm.compiler.errors_at
HadError == vm.compiler.parser.had_error
PanicMode == vm.compiler.parser.panic_mode

\* a step of compile(): at most one diagnostic is added, each on a line of
\* stderr, and had_error goes from false to true with a diagnostic only and
\* never back
OneDiagnostic ==
    vm.pc = "compile"
    => /\ Len(Diagnostics') <= Len(Diagnostics) + 1
       /\ SubSeq(Diagnostics', 1, Len(Diagnostics)) = Diagnostics
       /\ Len(stderr') - Len(stderr) = Len(Diagnostics') - Len(Diagnostics)
       /\ HadError => HadError'
       /\ HadError' /\ ~HadError => Len(Diagnostics') = Len(Diagnostics) + 1

\* C26: during compile() a declaration reports at most one diagnostic, the
\* others are suppressed by panic mode, which synchronize() has cleared when
\* the declaration is over; had_error is true from the first diagnostic on,
\* and compile() returns Ok(true) when no diagnostic was reported and
\* Ok(false) when one was.
C26_PanicModeSuppresses ==
    /\ [][OneDiagnostic]_vars
    /\ [](vm.pc = "compile" => ~PanicMode /\ (HadError <=> Diagnostics # <<>>))
    /\ [](vm.res = Ok(TRUE) => Diagnostics = <<>>)
    /\ [](vm.res = Ok(FALSE) => Diagnostics # <<>>)

\* `print ;` twice: each declaration calls error() for the `;` that is no
\* expression and error_at_current() for the missing `;` after it, and has
\* reported the first only; compile() has returned Ok(false)
C26_Witness ==
    /\ vm.compiler.source = Lines(<<<<"p", "r", "i", "n", "t", " ", ";">>,
                                    <<"p", "r", "i", "n", "t", " ", ";">>>>, 1)
    /\ Diagnostics = <<"Expect expression.", "Expect expression.">>
    /\ Len(stderr) = 2
    /\ vm.res = Ok(FALSE)
    /\ vm.pc = "done"

\* a statement boundary: the last token consumed is `;`, or the next token
\* is a keyword that starts a statement, or the next token is EOF
Boundary(previous, next) ==
    \/ previous.token_type = "SemiColon"
    \/ next.token_type \in RecoverAt
    \/ next.token_type = "EOF"

\* an iteration of Parser::parse whose declaration() has ended in
\* synchronize(): the parser is at a statement boundary
ParserStops ==
    ParseDropped
    => Boundary(Parser_previous(parser'), Parser_peek(parser'))

\* an iteration of compile() whose declaration() has reported a diagnostic
\* and has ended in synchronize(): the compiler is at a statement boundary
CompilerStops ==
    vm.pc = "compile" /\ Len(Diagnostics') > Len(Diagnostics)
    => Boundary(vm'.compiler.parser.previous, vm'.compiler.parser.current)

\* C27: after a parse error both synchronizers stop at a statement boundary.
C27_SynchronizersStopAtBoundary == [][ParserStops /\ CompilerStops]_vars

\* an iteration of the loop of Parser::parse, taken with a token other than
\* EOF ahead, has consumed at least one token
ParserProgress ==
    ParseDeclaration \/ ParseDropped => parser'.current > parser.current

\* an iteration of the loop of compile(), taken with a token other than EOF
\* ahead, has consumed at least one token: the token that was current is
\* behind the one that is current now
CompilerProgress ==
    CompileDeclaration
    => vm'.compiler.parser.current.start
       >= vm.compiler.parser.current.start + vm.compiler.parser.current.length

\* the cursors are inside the input: the parser's at a token, the EOF token
\* at most, the scanner's in the text or at its end
CursorsInside ==
    /\ parser.current < Len(parser.tokens)
    /\ vm.compiler.scanner.current <= Len(vm.compiler.source)
    /\ vm.pc = "compile" /\ vm.compiler.parser.current.token_type # "EOF"
       => vm.compiler.parser.current.length > 0

\* C30: on every token sequence that ends in EOF, malformed or not, each
\* iteration of the declaration loops of Parser::parse and of
\* Compiler::compile consumes at least one token, no cursor moves past EOF,
\* and both parse() and compile() return.
C30_FrontEndsTerminate ==
    /\ [][ParserProgress /\ CompilerProgress]_vars
    /\ []CursorsInside
    /\ <>[]FrontsDone

\* `+ print 1 ;`: both front ends have met the error at `+`, have
\* synchronized, have gone on with the rest and have returned at EOF
C30_Witness ==
    /\ FrontsDone
    /\ parser.tokens = TokensOf(<<LexPlus, LexPrint, LexNumber, LexSemiColon>>, 1)
    /\ Parser_is_at_end(parser)
    /\ Cardinality(EventsOf("parse_error")) = 1
    /\ program = <<StmtPrint(ExprLiteral(Number(1)))>>
    /\ Diagnostics = <<"Expect expression.">>
    /\ vm.compiler.parser.current.token_type = "EOF"
    /\ vm.res = Ok(FALSE)

=============================================================================
